---------------------------- MODULE Spec2Model ----------------------------
(***************************************************************************)
(* A model of the Nucleation voxel-schematic library: bounding boxes,      *)
(* block states, the sparse chunked Region store, the packed-bits and      *)
(* varint codecs, the schem (v2) writer and reader, and the chunk          *)
(* iterator.                                                               *)
(*                                                                         *)
(* Conventions.                                                            *)
(*  - A coordinate or a triple of the source is a TLA+ tuple <<x, y, z>>.  *)
(*  - Option<T> is a sequence: None is <<>>, Some(v) is <<v>>.             *)
(*  - Vec<T> is a sequence; the source's index i is position i + 1.        *)
(*  - HashMap<K, V> is a function whose domain is the set of keys.         *)
(*  - A chunk, Box<[PaletteIndex; CHUNK_SIZE]>, is zero-initialised in the *)
(*    source; it is held as the function of its non-zero cells, and every  *)
(*    other cell of 0 .. CHUNK_SIZE - 1 reads 0.                           *)
(*  - A u32 and an i64/u64 word are bit sequences (least significant bit   *)
(*    first), because their range exceeds the integer range of TLC.        *)
(***************************************************************************)
EXTENDS Integers, Sequences, FiniteSets, TLC

VARIABLES
    regions,    \* the two Region values under edit: regions.a (self) and regions.b (other)
    written,    \* coordinate -> block state most recently passed to regions.a.set_block
    last,       \* the last operation applied: its name, arguments and result
    ops,        \* number of operations applied so far
    calc,       \* input and output of the last pure-function evaluation
    schem,      \* the schematic under edit (regions by name, in insertion order)
    iter,       \* the ChunksIterator over schem
    yielded,    \* the sequence of chunks next_chunk has returned so far
    file        \* the result of the last to_schematic / from_schematic

vars == <<regions, written, last, ops, calc, schem, iter, yielded, file>>

---------------------------------------------------------------------------
(* Small helpers of the modelling conventions. *)

None == <<>>
Some(v) == <<v>>
IsSome(o) == o # <<>>
Unwrap(o) == o[1]

MinOf(a, b) == IF a <= b THEN a ELSE b
MaxOf(a, b) == IF a >= b THEN a ELSE b

EmptyMap == [k \in {} |-> 0]
MapPut(m, k, v) == (k :> v) @@ m
MapRemove(m, k) == [j \in (DOMAIN m) \ {k} |-> m[j]]

---------------------------------------------------------------------------
(* Program constants. *)

SUB == 16
CHUNK_SIZE == 4096
U16Modulus == 65536

\* `n as PaletteIndex` (u16): a truncating cast.
AsPaletteIndex(n) == n % U16Modulus

---------------------------------------------------------------------------
(* BlockState *)

NoProperties == [k \in {} |-> ""]

BlockStateNew(name) == [name |-> name, properties |-> NoProperties]

WithProp(block, key, value) ==
    [block EXCEPT !.properties = MapPut(block.properties, key, value)]

Air == BlockStateNew("minecraft:air")
Stone == BlockStateNew("minecraft:stone")
Dirt == BlockStateNew("minecraft:dirt")
Stairs == WithProp(BlockStateNew("minecraft:oak_stairs"), "facing", "north")
Wool(i) == BlockStateNew("minecraft:wool" \o ToString(i))

---------------------------------------------------------------------------
(* BoundingBox *)

BoundingBoxNew(min, max) == [min |-> min, max |-> max]

Contains(bb, point) ==
    /\ point[1] >= bb.min[1] /\ point[1] <= bb.max[1]
    /\ point[2] >= bb.min[2] /\ point[2] <= bb.max[2]
    /\ point[3] >= bb.min[3] /\ point[3] <= bb.max[3]

Union(bb, other) ==
    [min |-> << MinOf(bb.min[1], other.min[1]),
                MinOf(bb.min[2], other.min[2]),
                MinOf(bb.min[3], other.min[3]) >>,
     max |-> << MaxOf(bb.max[1], other.max[1]),
                MaxOf(bb.max[2], other.max[2]),
                MaxOf(bb.max[3], other.max[3]) >>]

GetDimensions(bb) ==
    << bb.max[1] - bb.min[1] + 1,
       bb.max[2] - bb.min[2] + 1,
       bb.max[3] - bb.min[3] + 1 >>

CoordsToIndex(bb, x, y, z) ==
    LET dims == GetDimensions(bb)
        width == dims[1]
        length == dims[3]
        dx == x - bb.min[1]
        dy == y - bb.min[2]
        dz == z - bb.min[3]
    IN  dx + dz * width + dy * width * length

\* index_to_coords with length where width belongs and width where length belongs.
IndexToCoordsSwapped(bb, index) ==
    LET dims == GetDimensions(bb)
        width == dims[3]
        length == dims[1]
        dx == index % width
        dy == index \div (width * length)
        dz == (index \div width) % length
    IN  << dx + bb.min[1], dy + bb.min[2], dz + bb.min[3] >>

IndexToCoords(bb, index) ==
    LET dims == GetDimensions(bb)
        width == dims[1]
        length == dims[3]
        dx == index % width
        dy == index \div (width * length)
        dz == (index \div width) % length
    IN  << dx + bb.min[1], dy + bb.min[2], dz + bb.min[3] >>

ToPositionAndSize(bb) == << bb.min, GetDimensions(bb) >>

Signum(n) == IF n > 0 THEN 1 ELSE IF n < 0 THEN -1 ELSE 0

\* from_position_and_size without offset_min and offset_max.
FromPositionAndSizeNoOffset(position, size) ==
    LET position2 == << position[1] + size[1], position[2] + size[2], position[3] + size[3] >>
    IN  BoundingBoxNew(
            << MinOf(position[1], position2[1]), MinOf(position[2], position2[2]),
               MinOf(position[3], position2[3]) >>,
            << MaxOf(position[1], position2[1]), MaxOf(position[2], position2[2]),
               MaxOf(position[3], position2[3]) >>)

FromPositionAndSize(position, size) ==
    LET position2 == << position[1] + size[1], position[2] + size[2], position[3] + size[3] >>
        offset_min == [i \in 1..3 |-> -MinOf(Signum(size[i]), 0)]
        offset_max == [i \in 1..3 |-> -MaxOf(Signum(size[i]), 0)]
    IN  BoundingBoxNew(
            << MinOf(position[1], position2[1]) + offset_min[1],
               MinOf(position[2], position2[2]) + offset_min[2],
               MinOf(position[3], position2[3]) + offset_min[3] >>,
            << MaxOf(position[1], position2[1]) + offset_max[1],
               MaxOf(position[2], position2[2]) + offset_max[2],
               MaxOf(position[3], position2[3]) + offset_max[3] >>)

BoxVolume(bb) ==
    LET dims == GetDimensions(bb) IN dims[1] * dims[2] * dims[3]

(* BoundingBoxIterator: iter_coords, next and size_hint. *)

IterCoords(bb) == [bbox |-> bb, current |-> Some(bb.min)]

\* next with y advanced before z (the order x, y, z).
IterNextYBeforeZ(it) ==
    IF it.current = None THEN [item |-> None, it |-> it]
    ELSE
      LET current == Unwrap(it.current)
          x1 == current[1] + 1
          wrapx == x1 > it.bbox.max[1]
          y1 == IF wrapx THEN current[2] + 1 ELSE current[2]
          wrapy == wrapx /\ y1 > it.bbox.max[2]
          z1 == IF wrapy THEN current[3] + 1 ELSE current[3]
          done == wrapy /\ z1 > it.bbox.max[3]
          next_x == IF wrapx THEN it.bbox.min[1] ELSE x1
          next_y == IF wrapy THEN it.bbox.min[2] ELSE y1
      IN  [item |-> Some(current),
           it |-> [it EXCEPT !.current =
                      IF done THEN None ELSE Some(<< next_x, next_y, z1 >>)]]

\* next: the item returned and the iterator afterwards.
IterNext(it) ==
    IF it.current = None THEN [item |-> None, it |-> it]
    ELSE
      LET current == Unwrap(it.current)
          x1 == current[1] + 1
          wrapx == x1 > it.bbox.max[1]
          z1 == IF wrapx THEN current[3] + 1 ELSE current[3]
          wrapz == wrapx /\ z1 > it.bbox.max[3]
          y1 == IF wrapz THEN current[2] + 1 ELSE current[2]
          done == wrapz /\ y1 > it.bbox.max[2]
          next_x == IF wrapx THEN it.bbox.min[1] ELSE x1
          next_z == IF wrapz THEN it.bbox.min[3] ELSE z1
      IN  [item |-> Some(current),
           it |-> [it EXCEPT !.current =
                      IF done THEN None ELSE Some(<< next_x, y1, next_z >>)]]

SizeHint(it) ==
    IF it.current = None THEN 0
    ELSE LET current == Unwrap(it.current)
         IN  BoxVolume(it.bbox)
               - CoordsToIndex(it.bbox, current[1], current[2], current[3])

\* Up to n calls of next, stopping at the first None: the items returned and the
\* iterator afterwards.  (The calls are split in halves only to keep the
\* evaluation shallow; they are made in order.)
RECURSIVE IterTake(_, _)
IterTake(it, n) ==
    IF n = 0 THEN [items |-> << >>, it |-> it]
    ELSE IF n = 1
    THEN LET step == IterNext(it) IN [items |-> step.item, it |-> step.it]
    ELSE LET left == IterTake(it, n \div 2)
         IN  IF left.it.current = None THEN left
             ELSE LET right == IterTake(left.it, n - (n \div 2))
                  IN  [items |-> left.items \o right.items, it |-> right.it]

\* The coordinates a `for ... in bb.iter_coords()` loop visits, in order: next is
\* called until it returns None.
RECURSIVE IterDrain(_, _)
IterDrain(it, n) ==
    LET part == IterTake(it, n)
    IN  IF part.it.current = None THEN part.items
        ELSE part.items \o IterDrain(part.it, 2 * n)

IterCoordsSeq(bb) == IterDrain(IterCoords(bb), 1)

---------------------------------------------------------------------------
(* Region *)

NewChunk == EmptyMap

ChunkGet(chunk, idx) == IF idx \in DOMAIN chunk THEN chunk[idx] ELSE 0

\* chunk[idx] = palette_index
ChunkStore(chunk, idx, palette_index) ==
    IF palette_index = 0 THEN MapRemove(chunk, idx)
    ELSE MapPut(chunk, idx, palette_index)

\* chunk.iter().all(|&idx| idx == 0)
ChunkAllZero(chunk) == \A idx \in DOMAIN chunk : chunk[idx] = 0

RegionNew(name, position, size) ==
    LET bounding_box == FromPositionAndSize(position, size)
        position_and_size == ToPositionAndSize(bounding_box)
    IN  [name |-> name,
         position |-> position_and_size[1],
         size |-> position_and_size[2],
         chunks |-> EmptyMap,
         palette |-> << Air >>,
         palette_lookup |-> MapPut(EmptyMap, Air, 0),
         entities |-> << >>,
         block_entities |-> EmptyMap]

GetBoundingBox(r) == FromPositionAndSize(r.position, r.size)

IsInRegion(r, x, y, z) == Contains(GetBoundingBox(r), << x, y, z >>)

RegionVolume(r) == r.size[1] * r.size[2] * r.size[3]

\* get_chunk_coords_and_index with the division and remainder that round
\* towards zero.
GetChunkCoordsAndIndexTruncating(x, y, z) ==
    LET Quot(n) == IF n >= 0 THEN n \div SUB ELSE -((-n) \div SUB)
        Rem(n) == n - Quot(n) * SUB
        idx == (Rem(y) * SUB * SUB) + (Rem(z) * SUB) + Rem(x)
    IN  << Quot(x), Quot(y), Quot(z), idx >>

GetChunkCoordsAndIndex(x, y, z) ==
    LET chunk_x == x \div SUB
        chunk_y == y \div SUB
        chunk_z == z \div SUB
        local_x == x % SUB
        local_y == y % SUB
        local_z == z % SUB
        idx == (local_y * SUB * SUB) + (local_z * SUB) + local_x
    IN  << chunk_x, chunk_y, chunk_z, idx >>

GetBlockIndex(r, x, y, z) ==
    IF ~IsInRegion(r, x, y, z) THEN None
    ELSE LET ci == GetChunkCoordsAndIndex(x, y, z)
             chunk_key == << ci[1], ci[2], ci[3] >>
         IN  IF chunk_key \in DOMAIN r.chunks
             THEN Some(ChunkGet(r.chunks[chunk_key], ci[4]))
             ELSE Some(0)

\* self.palette.get(i)
PaletteGet(palette, i) == IF i < Len(palette) THEN Some(palette[i + 1]) ELSE None

GetBlock(r, x, y, z) ==
    IF ~IsInRegion(r, x, y, z) THEN None
    ELSE LET block_index == GetBlockIndex(r, x, y, z)
         IN  IF IsSome(block_index)
             THEN PaletteGet(r.palette, Unwrap(block_index))
             ELSE Some(r.palette[1])

\* expand_to_fit that stores the new size and leaves the position where it was.
ExpandToFitKeepingPosition(r, x, y, z) ==
    LET current_bounding_box == GetBoundingBox(r)
        fit_position_bounding_box == BoundingBoxNew(<< x, y, z >>, << x, y, z >>)
        new_bounding_box == Union(current_bounding_box, fit_position_bounding_box)
        new_size == GetDimensions(new_bounding_box)
        new_position == new_bounding_box.min
    IN  IF new_size = r.size /\ new_position = r.position THEN r
        ELSE [r EXCEPT !.size = new_size]

\* expand_to_fit that rebuilds the storage for the new box and drops the chunks.
ExpandToFitDroppingChunks(r, x, y, z) ==
    LET current_bounding_box == GetBoundingBox(r)
        fit_position_bounding_box == BoundingBoxNew(<< x, y, z >>, << x, y, z >>)
        new_bounding_box == Union(current_bounding_box, fit_position_bounding_box)
        new_size == GetDimensions(new_bounding_box)
        new_position == new_bounding_box.min
    IN  IF new_size = r.size /\ new_position = r.position THEN r
        ELSE [r EXCEPT !.position = new_position, !.size = new_size,
                       !.chunks = EmptyMap]

ExpandToFit(r, x, y, z) ==
    LET current_bounding_box == GetBoundingBox(r)
        fit_position_bounding_box == BoundingBoxNew(<< x, y, z >>, << x, y, z >>)
        new_bounding_box == Union(current_bounding_box, fit_position_bounding_box)
        new_size == GetDimensions(new_bounding_box)
        new_position == new_bounding_box.min
    IN  IF new_size = r.size /\ new_position = r.position THEN r
        ELSE [r EXCEPT !.position = new_position, !.size = new_size]

\* Mutant of get_or_insert_in_palette: the index is taken after the push.
GetOrInsertInPaletteAfterPush(r, block) ==
    IF block \in DOMAIN r.palette_lookup
    THEN [region |-> r, index |-> r.palette_lookup[block]]
    ELSE LET index == AsPaletteIndex(Len(r.palette) + 1)
         IN  [region |-> [r EXCEPT !.palette = Append(r.palette, block),
                                   !.palette_lookup = MapPut(r.palette_lookup, block, index)],
              index |-> index]

\* The region after the call, and the index returned.
GetOrInsertInPalette(r, block) ==
    IF block \in DOMAIN r.palette_lookup
    THEN [region |-> r, index |-> r.palette_lookup[block]]
    ELSE LET index == AsPaletteIndex(Len(r.palette))
         IN  [region |-> [r EXCEPT !.palette = Append(r.palette, block),
                                   !.palette_lookup = MapPut(r.palette_lookup, block, index)],
              index |-> index]

\* Mutant of set_block_at_index: an all-zero chunk is kept.
SetBlockAtIndexNoEvict(r, x, y, z, palette_index) ==
    LET ci == GetChunkCoordsAndIndex(x, y, z)
        chunk_key == << ci[1], ci[2], ci[3] >>
        idx == ci[4]
    IN  IF palette_index = 0 /\ chunk_key \notin DOMAIN r.chunks THEN r
        ELSE LET chunk0 == IF chunk_key \in DOMAIN r.chunks
                           THEN r.chunks[chunk_key] ELSE NewChunk
             IN  [r EXCEPT !.chunks =
                     MapPut(r.chunks, chunk_key, ChunkStore(chunk0, idx, palette_index))]

\* set_block_at_index that creates the chunk before it looks at the index.
SetBlockAtIndexAllocating(r, x, y, z, palette_index) ==
    LET ci == GetChunkCoordsAndIndex(x, y, z)
        chunk_key == << ci[1], ci[2], ci[3] >>
        idx == ci[4]
        chunk0 == IF chunk_key \in DOMAIN r.chunks THEN r.chunks[chunk_key] ELSE NewChunk
        chunk == ChunkStore(chunk0, idx, palette_index)
    IN  IF palette_index = 0 /\ chunk_key \notin DOMAIN r.chunks
        THEN [r EXCEPT !.chunks = MapPut(r.chunks, chunk_key, NewChunk)]
        ELSE IF palette_index = 0 /\ ChunkAllZero(chunk)
        THEN [r EXCEPT !.chunks = MapRemove(r.chunks, chunk_key)]
        ELSE [r EXCEPT !.chunks = MapPut(r.chunks, chunk_key, chunk)]

SetBlockAtIndex(r, x, y, z, palette_index) ==
    LET ci == GetChunkCoordsAndIndex(x, y, z)
        chunk_key == << ci[1], ci[2], ci[3] >>
        idx == ci[4]
    IN  IF palette_index = 0 /\ chunk_key \notin DOMAIN r.chunks THEN r
        ELSE LET chunk0 == IF chunk_key \in DOMAIN r.chunks
                           THEN r.chunks[chunk_key] ELSE NewChunk
                 chunk == ChunkStore(chunk0, idx, palette_index)
             IN  IF palette_index = 0 /\ ChunkAllZero(chunk)
                 THEN [r EXCEPT !.chunks = MapRemove(r.chunks, chunk_key)]
                 ELSE [r EXCEPT !.chunks = MapPut(r.chunks, chunk_key, chunk)]

\* Region::set_block: the region afterwards (the call always returns true).
RegionSetBlock(r, x, y, z, block) ==
    LET r1 == IF ~IsInRegion(r, x, y, z) THEN ExpandToFit(r, x, y, z) ELSE r
        interned == GetOrInsertInPalette(r1, block)
    IN  SetBlockAtIndex(interned.region, x, y, z, interned.index)

\* count_blocks: the non-air cells over all stored chunks.
CountBlocks(r) ==
    LET RECURSIVE Sum(_)
        Sum(keys) == IF keys = {} THEN 0
                     ELSE LET k == CHOOSE k \in keys : TRUE
                          IN  Cardinality({i \in DOMAIN r.chunks[k] : r.chunks[k][i] # 0})
                                + Sum(keys \ {k})
    IN  Sum(DOMAIN r.chunks)

(* Region::merge *)

\* The palette loop of merge: self after the loop and palette_mapping.
RECURSIVE MergePalette(_, _, _, _)
MergePalette(self, other_palette, idx, palette_mapping) ==
    IF idx >= Len(other_palette)
    THEN [region |-> self, palette_mapping |-> palette_mapping]
    ELSE LET block == other_palette[idx + 1]
         IN  IF block \in DOMAIN self.palette_lookup
             THEN MergePalette(self, other_palette, idx + 1,
                               MapPut(palette_mapping, idx, self.palette_lookup[block]))
             ELSE LET new_idx == Len(self.palette)
                      self1 == [self EXCEPT
                                  !.palette = Append(self.palette, block),
                                  !.palette_lookup =
                                      MapPut(self.palette_lookup, block, AsPaletteIndex(new_idx))]
                  IN  MergePalette(self1, other_palette, idx + 1,
                                   MapPut(palette_mapping, idx, new_idx))

\* One pass of the block-copy loop of merge, at coordinate c of other's box.
MergeBlockAt(self, other, c, palette_mapping) ==
    LET oidx == GetBlockIndex(other, c[1], c[2], c[3])
    IN  IF IsSome(oidx) /\ Unwrap(oidx) # 0
        THEN SetBlockAtIndex(self, c[1], c[2], c[3],
                             AsPaletteIndex(palette_mapping[Unwrap(oidx)]))
        ELSE self

\* The block-copy loop of merge over coords[lo .. hi], in order (split in halves,
\* the first half evaluated before the second, only to keep the evaluation shallow).
RECURSIVE MergeBlocks(_, _, _, _, _, _)
MergeBlocks(self, other, coords, lo, hi, palette_mapping) ==
    IF lo > hi THEN self
    ELSE IF lo = hi THEN MergeBlockAt(self, other, coords[lo], palette_mapping)
    ELSE LET mid == (lo + hi) \div 2
             first == MergeBlocks(self, other, coords, lo, mid, palette_mapping)
         IN  IF first.name = self.name
             THEN MergeBlocks(first, other, coords, mid + 1, hi, palette_mapping)
             ELSE first

MergeEntities(self, other) == [self EXCEPT !.entities = self.entities \o other.entities]

MergeBlockEntities(self, other) ==
    [self EXCEPT !.block_entities =
        [pos \in (DOMAIN self.block_entities) \cup (DOMAIN other.block_entities) |->
            IF pos \in DOMAIN other.block_entities
            THEN other.block_entities[pos] ELSE self.block_entities[pos]]]

RegionMerge(self, other) ==
    LET bounding_box == GetBoundingBox(self)
        other_bounding_box == GetBoundingBox(other)
        combined_bounding_box == Union(bounding_box, other_bounding_box)
        self1 == [self EXCEPT !.position = combined_bounding_box.min,
                              !.size = GetDimensions(combined_bounding_box)]
        merged == MergePalette(self1, other.palette, 0, EmptyMap)
        coords == IterCoordsSeq(other_bounding_box)
        self2 == MergeBlocks(merged.region, other, coords, 1, Len(coords),
                             merged.palette_mapping)
    IN  MergeBlockEntities(MergeEntities(self2, other), other)


\* add_entity, add_block_entity (entities and block entities are opaque values)
AddEntity(r, entity) == [r EXCEPT !.entities = Append(r.entities, entity)]

AddBlockEntity(r, position, block_entity) ==
    [r EXCEPT !.block_entities = MapPut(r.block_entities, position, block_entity)]

---------------------------------------------------------------------------
(* Bounds and inputs of the region state machine. *)

MaxOps == 3

\* (position, size) pairs handed to Region::new for region a; the second has
\* negative size components and normalises to the box (-1,0,-1)..(1,2,1).
InitBoxes == { << <<0, 0, 0>>, <<2, 2, 2>> >>, << <<1, 0, 1>>, <<-3, 3, -3>> >> }

\* Coordinates handed to set_block and expand_to_fit: two cells of one chunk
\* inside the initial box, a cell of a negative chunk, a cell of another chunk.
InputCoords == { <<0, 0, 0>>, <<1, 1, 1>>, <<-1, -1, -1>>, <<2, 0, 16>> }

ExpandCoords == { <<1, 1, 1>>, <<-1, -1, -1>>, <<2, 0, 16>> }

\* The cells region b holds a block at.
OtherCoords == { <<2, 2, 2>>, <<1, 1, 1>>, <<1, 2, 17>> }

AxisOffsets == { <<0, 0, 0>>, <<1, 0, 0>>, <<-1, 0, 0>>, <<0, 1, 0>>, <<0, -1, 0>>,
                 <<0, 0, 1>>, <<0, 0, -1>> }

\* Coordinates at which reads are compared: the inputs and their neighbours.
ProbeCoords ==
    { << c[1] + d[1], c[2] + d[2], c[3] + d[3] >> :
        c \in InputCoords \cup OtherCoords, d \in AxisOffsets }

\* Block states handed to set_block on region r: air, a block, and a block state
\* named after the palette length (new to a palette that grew one entry at a time).
InputBlocks(r) == { Air, Stone, Wool(Len(r.palette)) }

Idle == [op |-> "none"]

\* Region a as constructed, with one entity and one block entity added.
InitSelf(box) ==
    AddBlockEntity(AddEntity(RegionNew("a", box[1], box[2]), "creeper:a"),
                   <<1, 1, 1>>, "chest:a")

\* Region b, the argument of merge: three blocks in two chunks, one entity and
\* two block entities, one of them at a position where a holds one too.
InitOther ==
    LET b0 == RegionNew("b", <<1, 1, 1>>, <<2, 2, 2>>)
        b1 == RegionSetBlock(b0, 2, 2, 2, Dirt)
        b2 == RegionSetBlock(b1, 1, 1, 1, Stone)
        b3 == RegionSetBlock(b2, 1, 2, 17, Wool(1))
        b4 == AddEntity(b3, "creeper:b")
        b5 == AddBlockEntity(b4, <<1, 1, 1>>, "chest:b")
    IN  AddBlockEntity(b5, <<2, 2, 2>>, "furnace:b")

InitRegions ==
    /\ \E box \in InitBoxes : regions = [a |-> InitSelf(box), b |-> InitOther]
    /\ written = EmptyMap
    /\ last = Idle
    /\ ops = 0

OtherIdle ==
    /\ calc = Idle
    /\ schem = Idle
    /\ iter = Idle
    /\ yielded = << >>
    /\ file = Idle

Init == InitRegions /\ OtherIdle

\* regions.a.set_block(c, block)
SetBlock(c, block) ==
    /\ ops < MaxOps
    /\ regions' = [regions EXCEPT !.a = RegionSetBlock(regions.a, c[1], c[2], c[3], block)]
    /\ written' = MapPut(written, c, block)
    /\ last' = [op |-> "set_block", coord |-> c, block |-> block, result |-> "true",
                before |-> regions.a]
    /\ ops' = ops + 1
    /\ UNCHANGED <<calc, schem, iter, yielded, file>>

\* regions.a.expand_to_fit(c)
DoExpandToFit(c) ==
    /\ ops < MaxOps
    /\ regions' = [regions EXCEPT !.a = ExpandToFit(regions.a, c[1], c[2], c[3])]
    /\ last' = [op |-> "expand_to_fit", coord |-> c, before |-> regions.a]
    /\ ops' = ops + 1
    /\ UNCHANGED <<written, calc, schem, iter, yielded, file>>

\* regions.a.merge(&regions.b); the cells merge writes are no longer the last
\* set_block at their coordinate.
DoMerge ==
    /\ ops < MaxOps
    /\ regions' = [regions EXCEPT !.a = RegionMerge(regions.a, regions.b)]
    /\ written' = [c \in {d \in DOMAIN written :
                              GetBlockIndex(regions.b, d[1], d[2], d[3]) \in {None, Some(0)}}
                     |-> written[c]]
    /\ last' = [op |-> "merge", before |-> regions.a]
    /\ ops' = ops + 1
    /\ UNCHANGED <<calc, schem, iter, yielded, file>>

Next ==
    \/ \E c \in InputCoords : \E block \in InputBlocks(regions.a) : SetBlock(c, block)
    \/ \E c \in ExpandCoords : DoExpandToFit(c)
    \/ DoMerge

Spec == Init /\ [][Next]_vars

---------------------------------------------------------------------------
(* The region state machine started from a region whose palette uses the whole *)
(* u16 index range: region a after set_block(0,0,0, Wool(i)) for               *)
(* i = 1 .. 65535 followed by set_block(0,0,0, Air).                           *)

DigitValue(ch) ==
    CASE ch = "0" -> 0 [] ch = "1" -> 1 [] ch = "2" -> 2 [] ch = "3" -> 3 [] ch = "4" -> 4
      [] ch = "5" -> 5 [] ch = "6" -> 6 [] ch = "7" -> 7 [] ch = "8" -> 8 [] ch = "9" -> 9

RECURSIVE ParseNat(_, _, _)
ParseNat(str, i, acc) ==
    IF i > Len(str) THEN acc
    ELSE ParseNat(str, i + 1, acc * 10 + DigitValue(SubSeq(str, i, i)))

\* The i of Wool(i).
WoolNumber(block) == ParseNat(block.name, Len("minecraft:wool") + 1, 0)

\* Region r after set_block(c, Wool(i)) for i = 1 .. n and set_block(c, Air), for a
\* freshly constructed r and a coordinate c inside it.
Prefilled(r, n) ==
    [r EXCEPT
        !.palette = [i \in 1 .. n + 1 |-> IF i = 1 THEN Air ELSE Wool(i - 1)],
        !.palette_lookup = [block \in {Air} \cup {Wool(i) : i \in 1 .. n} |->
                               IF block = Air THEN 0 ELSE WoolNumber(block)]]

FullCoords == { <<0, 0, 0>>, <<1, 1, 1>> }

InitFull ==
    /\ regions = [a |-> Prefilled(RegionNew("a", <<0, 0, 0>>, <<2, 2, 2>>), U16Modulus - 1),
                  b |-> InitOther]
    /\ written = EmptyMap
    /\ last = Idle
    /\ ops = 0
    /\ OtherIdle

NextFull ==
    \/ \E c \in FullCoords : \E block \in InputBlocks(regions.a) : SetBlock(c, block)
    \/ \E c \in FullCoords : DoExpandToFit(<< c[1] + 1, c[2], c[3] >>)
    \/ DoMerge

SpecFull == InitFull /\ [][NextFull]_vars

---------------------------------------------------------------------------
(* Claims about the region store. *)

ChunkKey(c) ==
    LET ci == GetChunkCoordsAndIndex(c[1], c[2], c[3]) IN << ci[1], ci[2], ci[3] >>

\* The coordinates position .. position + size - 1 of a region.
InsideBox(r, c) ==
    \A i \in 1..3 : r.position[i] <= c[i] /\ c[i] <= r.position[i] + r.size[i] - 1

BoxCoords(r) ==
    { << x, y, z >> : x \in r.position[1] .. r.position[1] + r.size[1] - 1,
                      y \in r.position[2] .. r.position[2] + r.size[2] - 1,
                      z \in r.position[3] .. r.position[3] + r.size[3] - 1 }

\* C1: after any sequence of set_block calls, get_block at every coordinate ever
\* written returns the block state most recently written there.
C1_WrittenBlocksReadBack ==
    \A c \in DOMAIN written : GetBlock(regions.a, c[1], c[2], c[3]) = Some(written[c])

\* C2: no chunk of the chunk map is entirely zero, and a region all of whose
\* cells read air has an empty chunk map and count_blocks() = 0.
C2_NoAllZeroChunkStored ==
    LET r == regions.a
    IN  /\ \A k \in DOMAIN r.chunks : ~ChunkAllZero(r.chunks[k])
        /\ (\A c \in BoxCoords(r) : GetBlockIndex(r, c[1], c[2], c[3]) = Some(0))
              => (r.chunks = EmptyMap /\ CountBlocks(r) = 0)

\* A write of air has just emptied a chunk that held a block, and the chunk is gone.
C2_Witness ==
    /\ last.op = "set_block" /\ last.block = Air
    /\ ChunkKey(last.coord) \in DOMAIN last.before.chunks
    /\ ChunkKey(last.coord) \notin DOMAIN regions.a.chunks
    /\ CountBlocks(regions.a) = 0

\* C3: get_block returns None exactly outside the bounding box; inside it returns
\* Some block state of the palette, which is air when the containing chunk is absent.
C3_GetBlockNoneExactlyOutside ==
    LET r == regions.a
    IN  \A c \in ProbeCoords :
          LET got == GetBlock(r, c[1], c[2], c[3])
          IN  /\ (got = None) <=> ~InsideBox(r, c)
              /\ InsideBox(r, c) =>
                    \E i \in 1 .. Len(r.palette) : got = Some(r.palette[i])
              /\ (InsideBox(r, c) /\ ChunkKey(c) \notin DOMAIN r.chunks) => got = Some(Air)

\* After a merge into a grown region: a probe outside the box, a probe inside it
\* in an absent chunk, and a probe holding a block that is not air.
C3_Witness ==
    LET r == regions.a
    IN  /\ last.op = "merge"
        /\ r.size # last.before.size
        /\ \E c \in ProbeCoords : GetBlock(r, c[1], c[2], c[3]) = None
        /\ \E c \in ProbeCoords : InsideBox(r, c) /\ ChunkKey(c) \notin DOMAIN r.chunks
        /\ \E c \in ProbeCoords :
              /\ GetBlock(r, c[1], c[2], c[3]) # None
              /\ GetBlock(r, c[1], c[2], c[3]) # Some(Air)

\* The block states the program was handed: those written, those of region b, air.
ProbeBlocks ==
    {Air, Stone, Dirt, Wool(1)} \cup { written[c] : c \in DOMAIN written }
        \cup (IF last.op = "set_block" THEN {last.block} ELSE {})

\* C5: interning a new block state when the palette already uses the whole u16
\* index range fails with PaletteFull and leaves the region unchanged, and no two
\* block states (of those handed to the program) are assigned the same index.
C5_PaletteFullIsAnError ==
    LET r == regions.a
        known == ProbeBlocks \cap DOMAIN r.palette_lookup
    IN  /\ ( /\ last.op = "set_block"
             /\ last.block \notin DOMAIN last.before.palette_lookup
             /\ Len(last.before.palette) >= U16Modulus )
           => (last.result = "PaletteFull" /\ r = last.before)
        /\ \A b1 \in known : \A b2 \in known :
              b1 # b2 => r.palette_lookup[b1] # r.palette_lookup[b2]

\* C6: palette[0] is air; the palette has no duplicates and
\* palette_lookup[palette[i]] = i for every i (stated for the entries holding a
\* block state that was handed to the program); every index stored in a chunk
\* is below palette.len().
C6_PaletteInvariants ==
    LET r == regions.a
        probe == ProbeBlocks
        held == { i \in 1 .. Len(r.palette) : r.palette[i] \in probe }
    IN  /\ r.palette[1] = Air
        /\ \A i \in held : \A j \in held : r.palette[i] = r.palette[j] => i = j
        /\ \A i \in held :
              /\ r.palette[i] \in DOMAIN r.palette_lookup
              /\ r.palette_lookup[r.palette[i]] = i - 1
        /\ \A k \in DOMAIN r.chunks : \A idx \in DOMAIN r.chunks[k] :
              r.chunks[k][idx] < Len(r.palette)

---------------------------------------------------------------------------
(* Fixed-width words: a u32 or a 64-bit word is the sequence of its bits,      *)
(* least significant first. A u8 is an integer of 0 .. 255.                    *)

RECURSIVE BitsOf(_, _)
\* The w low bits of the natural number n.
BitsOf(n, w) == IF w = 0 THEN << >> ELSE << n % 2 >> \o BitsOf(n \div 2, w - 1)

RECURSIVE BitsValue(_)
\* The natural number of a bit sequence (of fewer than 32 significant bits).
BitsValue(b) == IF b = << >> THEN 0 ELSE b[1] + 2 * BitsValue(Tail(b))

IsZero(b) == \A i \in 1 .. Len(b) : b[i] = 0

\* b >> k and b << k on a word of Len(b) bits (bits shifted out are lost).
ShiftRight(b, k) == [i \in 1 .. Len(b) |-> IF i + k <= Len(b) THEN b[i + k] ELSE 0]
ShiftLeft(b, k) == [i \in 1 .. Len(b) |-> IF i - k >= 1 THEN b[i - k] ELSE 0]

BitOr(a, b) == [i \in 1 .. Len(a) |-> IF a[i] = 1 \/ b[i] = 1 THEN 1 ELSE 0]
BitAnd(a, b) == [i \in 1 .. Len(a) |-> IF a[i] = 1 /\ b[i] = 1 THEN 1 ELSE 0]

U32FromNat(n) == BitsOf(n, 32)

\* a | b and a & b on u8 values.
ByteOr(a, b) == BitsValue(BitOr(BitsOf(a, 8), BitsOf(b, 8)))
ByteAnd(a, b) == BitsValue(BitAnd(BitsOf(a, 8), BitsOf(b, 8)))

---------------------------------------------------------------------------
(* formats/schematic.rs: the varint codec *)

RECURSIVE EncodeVarintLoop(_, _)
EncodeVarintLoop(val, bytes) ==
    LET byte == BitsValue(SubSeq(BitAnd(val, U32FromNat(127)), 1, 8))
        val1 == ShiftRight(val, 7)
        byte1 == IF ~IsZero(val1) THEN ByteOr(byte, 128) ELSE byte
        bytes1 == Append(bytes, byte1)
    IN  IF IsZero(val1) THEN bytes1 ELSE EncodeVarintLoop(val1, bytes1)

\* encode_varint(value): the bytes of the u32 value.
EncodeVarint(value) == EncodeVarintLoop(value, << >>)

RECURSIVE EncodeVarintOptimizedLoop(_, _)
EncodeVarintOptimizedLoop(val, buffer) ==
    LET byte == BitsValue(SubSeq(BitAnd(val, U32FromNat(127)), 1, 8))
        val1 == ShiftRight(val, 7)
        byte1 == IF ~IsZero(val1) THEN ByteOr(byte, 128) ELSE byte
        buffer1 == Append(buffer, byte1)
    IN  IF IsZero(val1) THEN buffer1 ELSE EncodeVarintOptimizedLoop(val1, buffer1)

\* encode_varint_optimized(value, buffer): the buffer after the call (it is cleared first).
EncodeVarintOptimized(value, buffer) == EncodeVarintOptimizedLoop(value, << >>)

RECURSIVE DecodeVarintLoop(_, _, _)
DecodeVarintLoop(reader, result, shift) ==
    IF reader = << >> THEN [ok |-> FALSE, err |-> "failed to fill whole buffer"]
    ELSE LET byte == Head(reader)
             result1 == BitOr(result, ShiftLeft(U32FromNat(ByteAnd(byte, 127)), shift))
         IN  IF ByteAnd(byte, 128) = 0
             THEN [ok |-> TRUE, value |-> result1, reader |-> Tail(reader)]
             ELSE IF shift + 7 >= 32
                  THEN [ok |-> FALSE, err |-> "Varint is too long"]
                  ELSE DecodeVarintLoop(Tail(reader), result1, shift + 7)

\* decode_varint started with shift = 7.
DecodeVarintFromShift7(reader) == DecodeVarintLoop(reader, U32FromNat(0), 7)

\* decode_varint(reader): Ok(value) and the reader after it, or Err.
DecodeVarint(reader) == DecodeVarintLoop(reader, U32FromNat(0), 0)

---------------------------------------------------------------------------
(* UniversalSchematic: named regions in insertion order and metadata. *)

SchematicNew(name) == [metadata |-> [name |-> Some(name), mc_version |-> None],
                       default_region_name |-> "Main",
                       regions |-> << >>]

\* The position of the region called name in s.regions, or 0.
RegionPosition(s, name) ==
    IF \E i \in 1 .. Len(s.regions) : s.regions[i].name = name
    THEN CHOOSE i \in 1 .. Len(s.regions) : s.regions[i].name = name
    ELSE 0

\* add_region: a region of the same name is replaced.
AddRegion(s, region) ==
    LET i == RegionPosition(s, region.name)
    IN  IF i = 0 THEN [s EXCEPT !.regions = Append(s.regions, region)]
        ELSE [s EXCEPT !.regions[i] = region]

\* set_block_in_region: the region is created at (x, y, z) with size (1, 1, 1) if absent.
SetBlockInRegion(s, name, x, y, z, block) ==
    LET i == RegionPosition(s, name)
    IN  IF i = 0
        THEN [s EXCEPT !.regions =
                 Append(s.regions,
                        RegionSetBlock(RegionNew(name, << x, y, z >>, << 1, 1, 1 >>),
                                       x, y, z, block))]
        ELSE [s EXCEPT !.regions[i] = RegionSetBlock(s.regions[i], x, y, z, block)]

\* set_block: on the default region.
SchematicSetBlock(s, x, y, z, block) ==
    SetBlockInRegion(s, s.default_region_name, x, y, z, block)

\* get_block: from the first region, in insertion order, whose box contains the position.
SchematicGetBlock(s, x, y, z) ==
    LET holding == { i \in 1 .. Len(s.regions) :
                        Contains(GetBoundingBox(s.regions[i]), << x, y, z >>) }
    IN  IF holding = {} THEN None
        ELSE LET i == CHOOSE i \in holding : \A j \in holding : i <= j
             IN  GetBlock(s.regions[i], x, y, z)

RECURSIVE UnionOfBoxes(_, _, _)
UnionOfBoxes(rs, i, acc) ==
    IF i > Len(rs) THEN acc
    ELSE UnionOfBoxes(rs, i + 1, Union(acc, GetBoundingBox(rs[i])))

\* get_bounding_box: the union of the regions' boxes (of a schematic with a region).
SchematicGetBoundingBox(s) ==
    UnionOfBoxes(s.regions, 2, GetBoundingBox(s.regions[1]))

RECURSIVE MergeRegions(_, _, _)
MergeRegions(rs, i, acc) ==
    IF i > Len(rs) THEN acc ELSE MergeRegions(rs, i + 1, RegionMerge(acc, rs[i]))

\* get_merged_region: the first region with every other region merged into it in order.
GetMergedRegion(s) == MergeRegions(s.regions, 2, s.regions[1])

---------------------------------------------------------------------------
(* formats/schematic.rs: the schem (v2) writer. The NBT root compound is a     *)
(* record; its gzip-compressed serialisation is not part of the model.         *)

BATCH_SIZE == 1024

\* `n as i16` and i16::abs.
AsI16(n) == LET m == n % U16Modulus IN IF m >= 32768 THEN m - U16Modulus ELSE m
Abs(n) == IF n < 0 THEN -n ELSE n

\* `x as i8` of a u8, and the same byte read back as u8.
AsI8(b) == IF b >= 128 THEN b - 256 ELSE b
AsU8(i) == i % 256

RECURSIVE JoinProps(_, _)
\* "k=v" of every property, joined by "," (in the order the map iterates).
JoinProps(props, keys) ==
    IF keys = {} THEN ""
    ELSE LET k == CHOOSE k \in keys : TRUE
             rest == JoinProps(props, keys \ {k})
         IN  k \o "=" \o props[k] \o (IF rest = "" THEN "" ELSE "," \o rest)

\* The palette key of a block state: name, or name[k=v,...].
PaletteKey(block_state) ==
    IF DOMAIN block_state.properties = {} THEN block_state.name
    ELSE block_state.name \o "[" \o
         JoinProps(block_state.properties, DOMAIN block_state.properties) \o "]"

RECURSIVE ConvertPaletteLoop(_, _, _, _, _)
ConvertPaletteLoop(palette, i, nbt_palette, max_id, next_id) ==
    IF i > Len(palette) THEN << nbt_palette, max_id >>
    ELSE IF palette[i].name = "minecraft:air"
         THEN ConvertPaletteLoop(palette, i + 1, nbt_palette, max_id, next_id)
         ELSE ConvertPaletteLoop(palette, i + 1,
                                 MapPut(nbt_palette, PaletteKey(palette[i]), next_id),
                                 MaxOf(max_id, next_id), next_id + 1)

\* convert_palette: (the Palette compound, max_id).
ConvertPalette(palette) ==
    ConvertPaletteLoop(palette, 1, MapPut(EmptyMap, "minecraft:air", 0), 0, 1)

RECURSIVE BlockDataOf(_, _, _, _)
\* The block-data loop of to_schematic over coords[lo .. hi].
BlockDataOf(merged_region, coords, lo, hi) ==
    IF lo > hi THEN << >>
    ELSE IF lo = hi
         THEN LET c == coords[lo]
                  got == GetBlockIndex(merged_region, c[1], c[2], c[3])
                  block_index == U32FromNat(IF IsSome(got) THEN Unwrap(got) ELSE 0)
              IN  EncodeVarintOptimized(block_index, << >>)
         ELSE LET mid == (lo + hi) \div 2
              IN  BlockDataOf(merged_region, coords, lo, mid)
                     \o BlockDataOf(merged_region, coords, mid + 1, hi)

RECURSIVE SeqOfSet(_)
\* The elements of a set in the order a HashMap would iterate them.
SeqOfSet(set) ==
    IF set = {} THEN << >>
    ELSE LET e == CHOOSE e \in set : TRUE IN << e >> \o SeqOfSet(set \ {e})

\* convert_block_entities: each block entity of the region with its position.
ConvertBlockEntities(region) ==
    SeqOfSet({ << pos, region.block_entities[pos] >> : pos \in DOMAIN region.block_entities })

ConvertEntities(region) == region.entities

RECURSIVE AllBlockEntities(_, _)
AllBlockEntities(rs, i) ==
    IF i > Len(rs) THEN << >> ELSE ConvertBlockEntities(rs[i]) \o AllBlockEntities(rs, i + 1)

RECURSIVE AllEntities(_, _)
AllEntities(rs, i) ==
    IF i > Len(rs) THEN << >> ELSE ConvertEntities(rs[i]) \o AllEntities(rs, i + 1)

\* to_schematic(schematic): the root compound written.
ToSchematic(schematic) ==
    LET bounding_box == SchematicGetBoundingBox(schematic)
        dims == GetDimensions(bounding_box)
        merged_region == GetMergedRegion(schematic)
        converted == ConvertPalette(merged_region.palette)
        coords == IterCoordsSeq(GetBoundingBox(merged_region))
        block_data == BlockDataOf(merged_region, coords, 1, Len(coords))
    IN  [Version |-> 2,
         DataVersion |-> IF IsSome(schematic.metadata.mc_version)
                         THEN Unwrap(schematic.metadata.mc_version) ELSE 1343,
         Width |-> Abs(AsI16(dims[1])),
         Height |-> Abs(AsI16(dims[2])),
         Length |-> Abs(AsI16(dims[3])),
         Size |-> dims,
         Offset |-> << 0, 0, 0 >>,
         Palette |-> converted[1],
         PaletteMax |-> converted[2] + 1,
         BlockData |-> [i \in 1 .. Len(block_data) |-> AsI8(block_data[i])],
         BlockEntities |-> AllBlockEntities(schematic.regions, 1),
         Entities |-> AllEntities(schematic.regions, 1),
         Metadata |-> schematic.metadata]

---------------------------------------------------------------------------
(* formats/schematic.rs: the schem reader. *)

Ok(v) == [ok |-> TRUE, value |-> v]
Err(e) == [ok |-> FALSE, err |-> e]

RECURSIVE FindChar(_, _, _)
\* The position of the first ch in str at or after position i, or 0.
FindChar(str, ch, i) ==
    IF i > Len(str) THEN 0
    ELSE IF SubSeq(str, i, i) = ch THEN i ELSE FindChar(str, ch, i + 1)

RECURSIVE TrimEndMatches(_, _)
TrimEndMatches(str, ch) ==
    IF Len(str) > 0 /\ SubSeq(str, Len(str), Len(str)) = ch
    THEN TrimEndMatches(SubSeq(str, 1, Len(str) - 1), ch)
    ELSE str

RECURSIVE TrimStartMatches(_, _)
TrimStartMatches(str, ch) ==
    IF Len(str) > 0 /\ SubSeq(str, 1, 1) = ch
    THEN TrimStartMatches(SubSeq(str, 2, Len(str)), ch)
    ELSE str

\* str::trim, for the whitespace character " ".
Trim(str) == TrimEndMatches(TrimStartMatches(str, " "), " ")

RECURSIVE Split(_, _)
\* str::split(ch): the pieces between the occurrences of ch.
Split(str, ch) ==
    LET i == FindChar(str, ch, 1)
    IN  IF i = 0 THEN << str >>
        ELSE << SubSeq(str, 1, i - 1) >> \o Split(SubSeq(str, i + 1, Len(str)), ch)

\* BlockState::add_prop
AddProp(bs, key, value) == [bs EXCEPT !.properties = MapPut(bs.properties, key, value)]

RECURSIVE ParseProps(_, _, _)
ParseProps(bs, pieces, i) ==
    IF i > Len(pieces) THEN bs
    ELSE LET prop == pieces[i]
             eq == FindChar(prop, "=", 1)
         IN  IF prop # "" /\ eq # 0
             THEN ParseProps(AddProp(bs, Trim(SubSeq(prop, 1, eq - 1)),
                                         Trim(SubSeq(prop, eq + 1, Len(prop)))),
                             pieces, i + 1)
             ELSE ParseProps(bs, pieces, i + 1)

\* parse_block_state(input)
ParseBlockState(input) ==
    LET open == FindChar(input, "[", 1)
    IN  IF open # 0
        THEN LET name == SubSeq(input, 1, open - 1)
                 props_str == SubSeq(input, open + 1, Len(input))
             IN  ParseProps(BlockStateNew(name), Split(TrimEndMatches(props_str, "]"), ","), 1)
        ELSE BlockStateNew(input)

\* parse_block_palette(region_tag): PaletteMax + 1 entries, air where no key has the id.
ParseBlockPalette(region_tag) ==
    LET palette_compound == region_tag.Palette
        palette_max == region_tag.PaletteMax
    IN  [i \in 1 .. palette_max + 1 |->
            IF \E key \in DOMAIN palette_compound : palette_compound[key] = i - 1
            THEN ParseBlockState(CHOOSE key \in DOMAIN palette_compound :
                                    palette_compound[key] = i - 1)
            ELSE BlockStateNew("minecraft:air")]

RECURSIVE ParseVarint(_, _, _, _, _)
\* The innermost loop of parse_block_data: one varint of data[pos .. limit - 1].
ParseVarint(data, pos, limit, result, shift) ==
    IF pos >= limit THEN [kind |-> "end", pos |-> pos]
    ELSE LET byte == data[pos + 1]
             result1 == BitOr(result, ShiftLeft(U32FromNat(ByteAnd(byte, 127)), shift))
         IN  IF ByteAnd(byte, 128) = 0
             THEN [kind |-> "value", value |-> result1, pos |-> pos + 1]
             ELSE IF shift + 7 >= 32 THEN [kind |-> "err"]
                  ELSE ParseVarint(data, pos + 1, limit, result1, shift + 7)

RECURSIVE ParseSteps(_, _, _, _, _)
\* At most n iterations of the batch loop of parse_block_data, started at pos
\* with buffer[.. decoded_count] = buffer (n > 1 is split in halves, the first
\* evaluated before the second, only to keep the evaluation shallow).
ParseSteps(data, pos, current_batch_size, buffer, n) ==
    IF ~(pos < current_batch_size /\ Len(buffer) < BATCH_SIZE) \/ n = 0
    THEN [kind |-> "done", buffer |-> buffer, pos |-> pos]
    ELSE IF n = 1
    THEN LET r == ParseVarint(data, pos, current_batch_size, U32FromNat(0), 0)
         IN  CASE r.kind = "err" -> r
               [] r.kind = "value" ->
                     [kind |-> "done", buffer |-> Append(buffer, r.value), pos |-> r.pos]
               [] r.kind = "end" -> [kind |-> "done", buffer |-> buffer, pos |-> r.pos]
    ELSE LET first == ParseSteps(data, pos, current_batch_size, buffer, n \div 2)
         IN  IF first.kind = "err" THEN first
             ELSE ParseSteps(data, first.pos, current_batch_size, first.buffer,
                             n - (n \div 2))

\* The batch loop of parse_block_data: buffer[.. decoded_count] and pos after it;
\* every iteration reads a byte, so current_batch_size iterations end the loop.
ParseBatch(data, pos, current_batch_size, buffer) ==
    ParseSteps(data, pos, current_batch_size, buffer, current_batch_size - pos)

RECURSIVE ParseBlockDataLoop(_, _, _)
ParseBlockDataLoop(block_data_u8, block_data, expected_length) ==
    IF ~(block_data_u8 # << >> /\ Len(block_data) < expected_length) THEN Ok(block_data)
    ELSE LET current_batch_size == MinOf(BATCH_SIZE, Len(block_data_u8))
             r == ParseBatch(block_data_u8, 0, current_batch_size, << >>)
         IN  IF r.kind = "err" THEN Err("Varint is too long")
             ELSE ParseBlockDataLoop(SubSeq(block_data_u8, r.pos + 1, Len(block_data_u8)),
                                     block_data \o r.buffer, expected_length)

\* parse_block_data(region_tag, width, height, length)
ParseBlockData(region_tag, width, height, length) ==
    LET block_data_u8 == [i \in 1 .. Len(region_tag.BlockData) |-> AsU8(region_tag.BlockData[i])]
        expected_length == width * height * length
        r == ParseBlockDataLoop(block_data_u8, << >>, expected_length)
    IN  IF ~r.ok THEN r
        ELSE IF Len(r.value) # expected_length THEN Err("Block data length mismatch")
        ELSE r

\* The palette_lookup rebuilt by from_schematic: every palette entry inserted in
\* order over the lookup of Region::new, a later index replacing an earlier one.
RebuiltLookup(region, palette) ==
    [block \in (DOMAIN region.palette_lookup) \cup { palette[i] : i \in 1 .. Len(palette) } |->
        IF \E i \in 1 .. Len(palette) : palette[i] = block
        THEN AsPaletteIndex(
                (CHOOSE i \in 1 .. Len(palette) :
                    /\ palette[i] = block
                    /\ \A j \in 1 .. Len(palette) : palette[j] = block => j <= i) - 1)
        ELSE region.palette_lookup[block]]

\* The cell of block-data position idx: (chunk coordinates, local index).
LoadedCell(idx, size) ==
    LET x == idx % size[1]
        y == idx \div (size[1] * size[3])
        z == (idx \div size[1]) % size[3]
        local_x == x % 16
        local_y == y % 16
        local_z == z % 16
    IN  [chunk_coords |-> << x \div 16, y \div 16, z \div 16 >>,
         local_idx |-> (local_y * 16 * 16) + (local_z * 16) + local_x]

\* The chunk map from_schematic builds: a chunk for every chunk coordinate holding a
\* block-data entry > 0, each such entry stored as u16 at its local index.
LoadedChunks(block_data, size) ==
    LET nonzero == { idx \in 0 .. Len(block_data) - 1 : ~IsZero(block_data[idx + 1]) }
        AsU16(v) == BitsValue(SubSeq(v, 1, 16))
        keys == { LoadedCell(idx, size).chunk_coords : idx \in nonzero }
    IN  [k \in keys |->
            LET here == { idx \in nonzero : LoadedCell(idx, size).chunk_coords = k
                                            /\ AsU16(block_data[idx + 1]) # 0 }
                locals == { LoadedCell(idx, size).local_idx : idx \in here }
            IN  [l \in locals |->
                    AsU16(block_data[(CHOOSE idx \in here :
                                         LoadedCell(idx, size).local_idx = l) + 1])]]

RECURSIVE AddBlockEntities(_, _, _)
AddBlockEntities(region, block_entities, i) ==
    IF i > Len(block_entities) THEN region
    ELSE AddBlockEntities(AddBlockEntity(region, block_entities[i][1], block_entities[i][2]),
                          block_entities, i + 1)

RECURSIVE AddEntities(_, _, _)
AddEntities(region, entities, i) ==
    IF i > Len(entities) THEN region
    ELSE AddEntities(AddEntity(region, entities[i]), entities, i + 1)

\* from_schematic(data): Ok(schematic) or Err, of the root compound schem.
FromSchematic(schem_tag) ==
    LET name == IF IsSome(schem_tag.Metadata.name)
                THEN Unwrap(schem_tag.Metadata.name) ELSE "Unnamed"
        schematic == [SchematicNew(name) EXCEPT
                         !.metadata.mc_version = Some(schem_tag.DataVersion)]
        width == schem_tag.Width
        height == schem_tag.Height
        length == schem_tag.Length
        block_palette == ParseBlockPalette(schem_tag)
        block_data == ParseBlockData(schem_tag, width, height, length)
        region0 == RegionNew("Main", << 0, 0, 0 >>, << width, height, length >>)
        region1 == [region0 EXCEPT
                      !.palette = block_palette,
                      !.palette_lookup = RebuiltLookup(region0, block_palette),
                      !.chunks = LoadedChunks(block_data.value, << width, height, length >>)]
        region2 == AddBlockEntities(region1, schem_tag.BlockEntities, 1)
        region3 == AddEntities(region2, schem_tag.Entities, 1)
    IN  IF ~block_data.ok THEN block_data
        ELSE Ok(AddRegion(schematic, region3))

---------------------------------------------------------------------------
(* The schematic state machine: set_block calls on a new schematic, then       *)
(* to_schematic, then from_schematic of the bytes written.                     *)

MaxSchemOps == 2

\* Coordinates handed to set_block: the origin, a cell beside it, a cell with
\* negative coordinates, a cell of the next chunk along z.
SchemCoords == { <<0, 0, 0>>, <<1, 2, 0>>, <<-1, -1, -1>>, <<0, 0, 16>> }

SchemBlocks == { Air, Stone, Stairs }

InitSchem ==
    /\ schem = SchematicNew("s")
    /\ file = Idle
    /\ last = Idle
    /\ ops = 0
    /\ regions = Idle
    /\ written = EmptyMap
    /\ calc = Idle
    /\ iter = Idle
    /\ yielded = << >>

\* schem.set_block(c, block)
SchemSetBlock(c, block) ==
    /\ ops < MaxSchemOps
    /\ file = Idle
    /\ iter = Idle
    /\ schem' = SchematicSetBlock(schem, c[1], c[2], c[3], block)
    /\ ops' = ops + 1
    /\ UNCHANGED <<regions, written, last, calc, iter, yielded, file>>

\* file = to_schematic(&schem)
Save ==
    /\ file = Idle
    /\ Len(schem.regions) > 0
    /\ file' = [op |-> "to_schematic", root |-> ToSchematic(schem)]
    /\ UNCHANGED <<regions, written, last, ops, calc, schem, iter, yielded>>

\* from_schematic(&file)
Load ==
    /\ file # Idle
    /\ last = Idle
    /\ last' = [op |-> "from_schematic", result |-> FromSchematic(file.root)]
    /\ UNCHANGED <<regions, written, ops, calc, schem, iter, yielded, file>>

NextSchem ==
    \/ \E c \in SchemCoords : \E block \in SchemBlocks : SchemSetBlock(c, block)
    \/ Save
    \/ Load

SpecSchem == InitSchem /\ [][NextSchem]_vars

\* The world coordinates of a bounding box.
CoordsOfBox(bb) ==
    { << x, y, z >> : x \in bb.min[1] .. bb.max[1], y \in bb.min[2] .. bb.max[2],
                      z \in bb.min[3] .. bb.max[3] }

\* C4: from_schematic(to_schematic(S)) succeeds and yields a schematic with the
\* single region "Main" whose get_block agrees with S's get_block at every world
\* coordinate of S's bounding box.
C4_SchemRoundTrip ==
    last.op = "from_schematic" =>
        /\ last.result.ok
        /\ Len(last.result.value.regions) = 1
        /\ last.result.value.regions[1].name = "Main"
        /\ \A c \in CoordsOfBox(SchematicGetBoundingBox(schem)) :
              SchematicGetBlock(last.result.value, c[1], c[2], c[3])
                 = SchematicGetBlock(schem, c[1], c[2], c[3])

---------------------------------------------------------------------------
(* region.rs: the packed-bits codec. A packed state (i64) is a 64-bit word.    *)

RECURSIVE CeilLog2(_)
\* (n as f64).log2().ceil() for n >= 1: the least k with 2^k >= n.
CeilLog2(n) == IF n <= 1 THEN 0 ELSE 1 + CeilLog2((n + 1) \div 2)

\* calculate_bits_per_block without the minimum of 2 bits.
CalculateBitsPerBlockNoMinimum(r) == CeilLog2(Len(r.palette))

CalculateBitsPerBlock(r) == MaxOf(CeilLog2(Len(r.palette)), 2)

\* (1 << k) - 1 as a word of w bits.
MaskOf(k, w) == [i \in 1 .. w |-> IF i <= k THEN 1 ELSE 0]

\* One pass of the loop of create_packed_block_states, for the position of rank
\* index holding block_state_idx (only the first word is written).
PackAtLowOnly(packed_states, index, block_state_idx, bits_per_block) ==
    LET bit_index == index * bits_per_block
        start_long_index == bit_index \div 64
        start_offset == bit_index % 64
    IN  [packed_states EXCEPT
            ![start_long_index + 1] = BitOr(@, ShiftLeft(block_state_idx, start_offset))]

\* One pass of the loop of create_packed_block_states.
PackAt(packed_states, index, block_state_idx, bits_per_block) ==
    LET bit_index == index * bits_per_block
        start_long_index == bit_index \div 64
        end_long_index == (bit_index + bits_per_block - 1) \div 64
        start_offset == bit_index % 64
    IN  IF start_long_index = end_long_index
        THEN [packed_states EXCEPT
                ![start_long_index + 1] = BitOr(@, ShiftLeft(block_state_idx, start_offset))]
        ELSE [packed_states EXCEPT
                ![start_long_index + 1] = BitOr(@, ShiftLeft(block_state_idx, start_offset)),
                ![end_long_index + 1] = BitOr(@, ShiftRight(block_state_idx, 64 - start_offset))]

RECURSIVE PackLoop(_, _, _, _, _, _)
\* The loop of create_packed_block_states over the ranks lo .. hi, in order (split
\* in halves, the first half evaluated before the second, only to keep the
\* evaluation shallow).
PackLoop(r, coords, lo, hi, packed_states, bits_per_block) ==
    IF lo > hi THEN packed_states
    ELSE IF lo = hi
         THEN LET c == coords[lo + 1]
                  got == GetBlockIndex(r, c[1], c[2], c[3])
                  block_state_idx ==
                      BitAnd(BitsOf(IF IsSome(got) THEN Unwrap(got) ELSE 0, 64),
                             MaskOf(bits_per_block, 64))
              IN  PackAt(packed_states, lo, block_state_idx, bits_per_block)
         ELSE LET mid == (lo + hi) \div 2
                  first == PackLoop(r, coords, lo, mid, packed_states, bits_per_block)
              IN  IF Len(first) = Len(packed_states) /\ first = first
                  THEN PackLoop(r, coords, mid + 1, hi, first, bits_per_block)
                  ELSE first

\* create_packed_block_states()
CreatePackedBlockStates(r) ==
    LET bits_per_block == CalculateBitsPerBlock(r)
        volume == RegionVolume(r)
        expected_len == (volume * bits_per_block + 63) \div 64
        zeroes == [i \in 1 .. expected_len |-> BitsOf(0, 64)]
    IN  PackLoop(r, IterCoordsSeq(GetBoundingBox(r)), 0, volume - 1, zeroes, bits_per_block)

\* The value unpack_block_states pushes for the position of rank index.
UnpackAt(packed_states, index, bits_per_block) ==
    LET bit_index == index * bits_per_block
        start_long_index == bit_index \div 64
        start_offset == bit_index % 64
        value ==
            IF start_offset + bits_per_block <= 64
            THEN BitAnd(ShiftRight(packed_states[start_long_index + 1], start_offset),
                        MaskOf(bits_per_block, 64))
            ELSE LET low_bits == BitAnd(ShiftRight(packed_states[start_long_index + 1],
                                                   start_offset),
                                        MaskOf(64 - start_offset, 64))
                     high_bits == BitAnd(packed_states[start_long_index + 2],
                                         MaskOf(bits_per_block - (64 - start_offset), 64))
                 IN  BitOr(low_bits, ShiftLeft(high_bits, 64 - start_offset))
    IN  BitsValue(SubSeq(value, 1, 31))    \* value as usize; value < 2^bits_per_block

\* unpack_block_states(packed_states)
UnpackBlockStates(r, packed_states) ==
    LET bits_per_block == CalculateBitsPerBlock(r)
    IN  [i \in 1 .. RegionVolume(r) |-> UnpackAt(packed_states, i - 1, bits_per_block)]

---------------------------------------------------------------------------
(* The packed-bits state machine: a region of some size is filled by set_block *)
(* calls, packed, and the packed states are unpacked.                          *)

MaxPackPalette == 9

\* Palette lengths the fill aims at: 1 .. MaxPackPalette, and 17 (5 bits per block).
PackPalettes == (1 .. MaxPackPalette) \cup {17}

\* Sizes and positions of the region: volumes 1 to 24; at 3 bits per block the
\* position of rank 21, at 5 bits the position of rank 12, straddles two words.
PackSizes == { <<1, 1, 1>>, <<3, 1, 2>>, <<13, 1, 1>>, <<16, 1, 1>>, <<22, 1, 1>>, <<4, 2, 3>> }
PackPositions == { <<0, 0, 0>>, <<-3, -1, 14>> }
PackMultipliers == { 1, 5 }
PackOffsets == { 0, 1 }

PackBlock(k) == IF k = 0 THEN Air ELSE Wool(k)

RECURSIVE FillLoop(_, _, _, _, _, _, _)
\* r after set_block(coords[i + 1], PackBlock((i * mult + add) % p)) for every rank
\* i of lo .. hi, in order (split in halves, the first half evaluated before the
\* second, only to keep the evaluation shallow).
FillLoop(r, coords, lo, hi, p, mult, add) ==
    IF lo > hi THEN r
    ELSE IF lo = hi
         THEN LET c == coords[lo + 1]
              IN  RegionSetBlock(r, c[1], c[2], c[3], PackBlock((lo * mult + add) % p))
         ELSE LET mid == (lo + hi) \div 2
                  first == FillLoop(r, coords, lo, mid, p, mult, add)
              IN  IF first.name = r.name
                  THEN FillLoop(first, coords, mid + 1, hi, p, mult, add)
                  ELSE first

InitPack ==
    /\ \E position \in PackPositions : \E size \in PackSizes :
          regions = [a |-> RegionNew("a", position, size)]
    /\ calc = Idle
    /\ last = Idle
    /\ ops = 0
    /\ written = EmptyMap
    /\ schem = Idle
    /\ iter = Idle
    /\ yielded = << >>
    /\ file = Idle

\* set_block at every position of regions.a
Fill(p, mult, add) ==
    /\ last = Idle
    /\ calc = Idle
    /\ regions' = [a |-> FillLoop(regions.a, IterCoordsSeq(GetBoundingBox(regions.a)),
                                  0, RegionVolume(regions.a) - 1, p, mult, add)]
    /\ last' = [op |-> "fill"]
    /\ UNCHANGED <<written, ops, calc, schem, iter, yielded, file>>

\* regions.a.create_packed_block_states()
Pack ==
    /\ calc = Idle
    /\ calc' = [op |-> "pack", packed_states |-> CreatePackedBlockStates(regions.a)]
    /\ UNCHANGED <<regions, written, last, ops, schem, iter, yielded, file>>

\* regions.a.unpack_block_states(&packed_states)
Unpack ==
    /\ calc.op = "pack"
    /\ calc' = [op |-> "unpack", packed_states |-> calc.packed_states,
                blocks |-> UnpackBlockStates(regions.a, calc.packed_states)]
    /\ UNCHANGED <<regions, written, last, ops, schem, iter, yielded, file>>

NextPack ==
    \/ \E p \in PackPalettes : \E mult \in PackMultipliers : \E add \in PackOffsets :
          Fill(p, mult, add)
    \/ Pack
    \/ Unpack

SpecPack == InitPack /\ [][NextPack]_vars

\* C7: unpack_block_states(create_packed_block_states()) is, in canonical position
\* order, the palette index stored at each position of the region.
C7_UnpackInvertsPack ==
    calc.op = "unpack" =>
        LET r == regions.a
            coords == IterCoordsSeq(GetBoundingBox(r))
        IN  /\ Len(calc.blocks) = RegionVolume(r)
            /\ \A i \in 1 .. Len(coords) :
                  Some(calc.blocks[i]) = GetBlockIndex(r, coords[i][1], coords[i][2], coords[i][3])

\* Unpacked: a field that straddles two words, with set bits in both words.
C7_Witness ==
    /\ calc.op = "unpack"
    /\ LET bits == CalculateBitsPerBlock(regions.a)
       IN  \E i \in 0 .. RegionVolume(regions.a) - 1 :
              LET start_offset == (i * bits) % 64
                  low == 64 - start_offset
              IN  /\ start_offset + bits > 64
                  /\ BitsValue(SubSeq(BitsOf(calc.blocks[i + 1], 16), 1, low)) # 0
                  /\ BitsValue(SubSeq(BitsOf(calc.blocks[i + 1], 16), low + 1, 16)) # 0

---------------------------------------------------------------------------
(* Evaluations of the pure functions: the varint codec on u32 values and the   *)
(* index / coordinate conversions of bounding boxes.                           *)

MaxSmallVarint == 300
MaxBoxDim == 3

\* 2^k and 2^k - 1 as u32.
PowerWord(k) == [i \in 1 .. 32 |-> IF i = k + 1 THEN 1 ELSE 0]
OnesWord(k) == MaskOf(k, 32)

\* u32 values: the small ones, every power of two, and around every power of two.
VarintInputs ==
    { BitsOf(n, 32) : n \in 0 .. MaxSmallVarint }
        \cup { PowerWord(k) : k \in 0 .. 31 }
        \cup { OnesWord(k) : k \in 0 .. 32 }
        \cup { BitOr(PowerWord(k), PowerWord(0)) : k \in 0 .. 31 }
        \cup { BitOr(PowerWord(31), OnesWord(k)) : k \in 0 .. 31 }

\* Bounding boxes with min <= max: every size up to MaxBoxDim per axis, at the
\* origin and at a corner with negative and positive coordinates.
BoxMins == { <<0, 0, 0>>, <<-2, -5, 3>> }
BoxInputs ==
    { BoundingBoxNew(min, << min[1] + w - 1, min[2] + h - 1, min[3] + l - 1 >>) :
        min \in BoxMins, w \in 1 .. MaxBoxDim, h \in 1 .. MaxBoxDim, l \in 1 .. MaxBoxDim }

\* What the buffer handed to encode_varint_optimized held before the call.
StaleBuffer == << 255, 1 >>

InitCalc ==
    /\ calc = Idle
    /\ regions = Idle
    /\ written = EmptyMap
    /\ last = Idle
    /\ ops = 0
    /\ schem = Idle
    /\ iter = Idle
    /\ yielded = << >>
    /\ file = Idle

\* encode_varint(value), encode_varint_optimized(value, buffer), decode_varint(bytes)
CalcVarint(value) ==
    /\ calc = Idle
    /\ calc' = [op |-> "varint", value |-> value,
                bytes |-> EncodeVarint(value),
                buffer |-> EncodeVarintOptimized(value, StaleBuffer),
                decoded |-> DecodeVarint(EncodeVarint(value))]
    /\ UNCHANGED <<regions, written, last, ops, schem, iter, yielded, file>>

\* bb.coords_to_index(bb.index_to_coords(index))
CalcIndex(bb, index) ==
    /\ calc = Idle
    /\ calc' = [op |-> "index", bb |-> bb, index |-> index,
                coords |-> IndexToCoords(bb, index),
                back |-> LET c == IndexToCoords(bb, index)
                         IN  CoordsToIndex(bb, c[1], c[2], c[3])]
    /\ UNCHANGED <<regions, written, last, ops, schem, iter, yielded, file>>

\* bb.index_to_coords(bb.coords_to_index(c))
CalcCoords(bb, c) ==
    /\ calc = Idle
    /\ calc' = [op |-> "coords", bb |-> bb, coords |-> c,
                index |-> CoordsToIndex(bb, c[1], c[2], c[3]),
                back |-> IndexToCoords(bb, CoordsToIndex(bb, c[1], c[2], c[3]))]
    /\ UNCHANGED <<regions, written, last, ops, schem, iter, yielded, file>>

\* Sizes handed to from_position_and_size and Region::new: every component
\* from -MaxBoxDim to MaxBoxDim, zero included.
SizeInputs ==
    { << w, h, l >> : w \in -MaxBoxDim .. MaxBoxDim, h \in -MaxBoxDim .. MaxBoxDim,
                      l \in -MaxBoxDim .. MaxBoxDim }

\* BoundingBox::from_position_and_size(position, size), to_position_and_size of
\* the result, and Region::new(name, position, size)
CalcBox(position, size) ==
    /\ calc = Idle
    /\ calc' = [op |-> "box", position |-> position, size |-> size,
                bb |-> FromPositionAndSize(position, size),
                back |-> ToPositionAndSize(FromPositionAndSize(position, size)),
                region |-> RegionNew("r", position, size)]
    /\ UNCHANGED <<regions, written, last, ops, schem, iter, yielded, file>>

\* Coordinates handed to get_chunk_coords_and_index: on every axis the two
\* sides of the chunk edges at -16, 0 and 16.
ChunkInputs ==
    { << x, y, z >> : x \in {-17, -16, -1, 0, 15, 16}, y \in {-17, -16, -1, 0, 15, 16},
                      z \in {-17, -16, -1, 0, 15, 16} }

\* region.get_chunk_coords_and_index(c)
CalcChunk(c) ==
    /\ calc = Idle
    /\ calc' = [op |-> "chunk", coords |-> c,
                result |-> GetChunkCoordsAndIndex(c[1], c[2], c[3])]
    /\ UNCHANGED <<regions, written, last, ops, schem, iter, yielded, file>>

NextCalc ==
    \/ \E c \in ChunkInputs : CalcChunk(c)
    \/ \E position \in BoxMins : \E size \in SizeInputs : CalcBox(position, size)
    \/ \E value \in VarintInputs : CalcVarint(value)
    \/ \E bb \in BoxInputs : \E index \in 0 .. BoxVolume(bb) - 1 : CalcIndex(bb, index)
    \/ \E bb \in BoxInputs : \E c \in CoordsOfBox(bb) : CalcCoords(bb, c)

SpecCalc == InitCalc /\ [][NextCalc]_vars

\* C8: decode_varint(encode_varint(v)) = v; the encoding is 1 to 5 bytes, every byte
\* but the last has its high bit set and the last has it clear; 0 -> [0x00],
\* 128 -> [0x80, 0x01], 4294967295 -> [0xFF, 0xFF, 0xFF, 0xFF, 0x0F];
\* encode_varint_optimized produces the same bytes.
C8_VarintRoundTrip ==
    calc.op = "varint" =>
        LET n == Len(calc.bytes)
        IN  /\ calc.decoded.ok
            /\ calc.decoded.value = calc.value
            /\ calc.decoded.reader = << >>
            /\ n \in 1 .. 5
            /\ \A i \in 1 .. n - 1 : calc.bytes[i] \in 128 .. 255
            /\ calc.bytes[n] \in 0 .. 127
            /\ calc.value = U32FromNat(0) => calc.bytes = << 0 >>
            /\ calc.value = U32FromNat(128) => calc.bytes = << 128, 1 >>
            /\ calc.value = OnesWord(32) => calc.bytes = << 255, 255, 255, 255, 15 >>
            /\ calc.buffer = calc.bytes

\* The largest u32 was encoded in five bytes and decoded.
C8_Witness ==
    /\ calc.op = "varint"
    /\ calc.value = OnesWord(32)
    /\ Len(calc.bytes) = 5
    /\ calc.decoded.ok

\* C10: coords_to_index(index_to_coords(i)) = i for every i in [0, volume), and
\* index_to_coords(coords_to_index(c)) = c for every c inside the box, with
\* index = dx + dz*W + dy*W*L.
C10_IndexCoordsBijection ==
    /\ calc.op = "index" =>
          /\ calc.back = calc.index
          /\ Contains(calc.bb, calc.coords)
    /\ calc.op = "coords" =>
          LET dims == GetDimensions(calc.bb)
              dx == calc.coords[1] - calc.bb.min[1]
              dy == calc.coords[2] - calc.bb.min[2]
              dz == calc.coords[3] - calc.bb.min[3]
          IN  /\ calc.back = calc.coords
              /\ calc.index = dx + dz * dims[1] + dy * dims[1] * dims[3]
              /\ calc.index \in 0 .. BoxVolume(calc.bb) - 1

\* The last index of a box whose three dimensions differ, away from the origin.
C10_Witness ==
    /\ calc.op = "index"
    /\ calc.bb.min # <<0, 0, 0>>
    /\ Cardinality({ GetDimensions(calc.bb)[i] : i \in 1 .. 3 }) = 3
    /\ calc.index = BoxVolume(calc.bb) - 1
    /\ calc.coords = calc.bb.max

---------------------------------------------------------------------------
(* chunk_iterator.rs: ChunksIterator *)

\* i32 division a / b for b > 0: the quotient truncated toward zero.
TruncDiv(a, b) == IF a >= 0 THEN a \div b ELSE -((-a) \div b)

RECURSIVE StrContainsFrom(_, _, _)
StrContainsFrom(str, pat, i) ==
    IF i + Len(pat) - 1 > Len(str) THEN FALSE
    ELSE IF SubSeq(str, i, i + Len(pat) - 1) = pat THEN TRUE
    ELSE StrContainsFrom(str, pat, i + 1)

\* str::contains(pat)
StrContains(str, pat) == StrContainsFrom(str, pat, 1)

\* The first chunk coordinate of an axis, as new and advance_position compute it.
MinChunk(min, chunk_dim) ==
    IF min < 0 THEN TruncDiv(min - chunk_dim + 1, chunk_dim) ELSE TruncDiv(min, chunk_dim)

\* ChunksIterator::new
ChunksIteratorNew(schematic, chunk_width, chunk_height, chunk_length) ==
    LET bbox == SchematicGetBoundingBox(schematic)
    IN  [schematic |-> schematic,
         bbox |-> bbox,
         chunk_width |-> chunk_width,
         chunk_height |-> chunk_height,
         chunk_length |-> chunk_length,
         current_chunk_x |-> MinChunk(bbox.min[1], chunk_width),
         current_chunk_y |-> MinChunk(bbox.min[2], chunk_height),
         current_chunk_z |-> MinChunk(bbox.min[3], chunk_length),
         chunks_processed |-> FALSE]

\* advance_position that advances X first, then Y, then Z.
AdvancePositionXFirst(it) ==
    LET max_chunk_x == TruncDiv(it.bbox.max[1] + it.chunk_width - 1, it.chunk_width)
        max_chunk_y == TruncDiv(it.bbox.max[2] + it.chunk_height - 1, it.chunk_height)
        max_chunk_z == TruncDiv(it.bbox.max[3] + it.chunk_length - 1, it.chunk_length)
        x1 == [it EXCEPT !.current_chunk_x = @ + 1]
    IN  IF x1.current_chunk_x > max_chunk_x
        THEN LET y1 == [x1 EXCEPT
                          !.current_chunk_x = MinChunk(it.bbox.min[1], it.chunk_width),
                          !.current_chunk_y = @ + 1]
             IN  IF y1.current_chunk_y > max_chunk_y
                 THEN LET z1 == [y1 EXCEPT
                                   !.current_chunk_y = MinChunk(it.bbox.min[2], it.chunk_height),
                                   !.current_chunk_z = @ + 1]
                      IN  IF z1.current_chunk_z > max_chunk_z
                          THEN [z1 EXCEPT !.chunks_processed = TRUE]
                          ELSE z1
                 ELSE y1
        ELSE x1

\* advance_position
AdvancePosition(it) ==
    LET max_chunk_x == TruncDiv(it.bbox.max[1] + it.chunk_width - 1, it.chunk_width)
        max_chunk_y == TruncDiv(it.bbox.max[2] + it.chunk_height - 1, it.chunk_height)
        max_chunk_z == TruncDiv(it.bbox.max[3] + it.chunk_length - 1, it.chunk_length)
        z1 == [it EXCEPT !.current_chunk_z = @ + 1]
    IN  IF z1.current_chunk_z > max_chunk_z
        THEN LET y1 == [z1 EXCEPT
                          !.current_chunk_z = MinChunk(it.bbox.min[3], it.chunk_length),
                          !.current_chunk_y = @ + 1]
             IN  IF y1.current_chunk_y > max_chunk_y
                 THEN LET x1 == [y1 EXCEPT
                                   !.current_chunk_y = MinChunk(it.bbox.min[2], it.chunk_height),
                                   !.current_chunk_x = @ + 1]
                      IN  IF x1.current_chunk_x > max_chunk_x
                          THEN [x1 EXCEPT !.chunks_processed = TRUE]
                          ELSE x1
                 ELSE y1
        ELSE z1

\* The blocks next_chunk collects from the cells min .. max: x outermost, z innermost,
\* every cell whose block exists and whose name does not contain "air".
CollectBlocks(schematic, min, max) ==
    LET ny == max[2] - min[2] + 1
        nz == max[3] - min[3] + 1
        cells == [i \in 1 .. (max[1] - min[1] + 1) * ny * nz |->
                    << min[1] + ((i - 1) \div (ny * nz)),
                       min[2] + (((i - 1) \div nz) % ny),
                       min[3] + ((i - 1) % nz) >>]
        Kept(c) == LET block == SchematicGetBlock(schematic, c[1], c[2], c[3])
                   IN  IsSome(block) /\ ~StrContains(Unwrap(block).name, "air")
        kept == SelectSeq(cells, Kept)
    IN  [i \in 1 .. Len(kept) |->
            [position |-> kept[i],
             block |-> Unwrap(SchematicGetBlock(schematic, kept[i][1], kept[i][2], kept[i][3]))]]

RECURSIVE NextChunkPositionAfterAdvance(_)
\* next_chunk that reads the current position after advance_position has run.
NextChunkPositionAfterAdvance(it) ==
    IF it.chunks_processed THEN [iter |-> it, result |-> None]
    ELSE LET chunk_min == << it.current_chunk_x * it.chunk_width,
                            it.current_chunk_y * it.chunk_height,
                            it.current_chunk_z * it.chunk_length >>
             chunk_max == << chunk_min[1] + it.chunk_width - 1,
                            chunk_min[2] + it.chunk_height - 1,
                            chunk_min[3] + it.chunk_length - 1 >>
         IN  IF \E a \in 1 .. 3 : chunk_min[a] > it.bbox.max[a] \/ chunk_max[a] < it.bbox.min[a]
             THEN NextChunkPositionAfterAdvance(AdvancePosition(it))
             ELSE LET min == [a \in 1 .. 3 |-> MaxOf(chunk_min[a], it.bbox.min[a])]
                      max == [a \in 1 .. 3 |-> MinOf(chunk_max[a], it.bbox.max[a])]
                      blocks == CollectBlocks(it.schematic, min, max)
                      advanced == AdvancePosition(it)
                      current_pos == << advanced.current_chunk_x, advanced.current_chunk_y,
                                        advanced.current_chunk_z >>
                  IN  IF blocks # << >>
                      THEN [iter |-> advanced,
                            result |-> Some([chunk |-> current_pos, blocks |-> blocks])]
                      ELSE NextChunkPositionAfterAdvance(advanced)

RECURSIVE NextChunkRestarting(_)
\* next_chunk that, once the chunks are processed, returns None and starts over.
NextChunkRestarting(it) ==
    IF it.chunks_processed
    THEN [iter |-> ChunksIteratorNew(it.schematic, it.chunk_width, it.chunk_height,
                                     it.chunk_length),
          result |-> None]
    ELSE LET chunk_min == << it.current_chunk_x * it.chunk_width,
                            it.current_chunk_y * it.chunk_height,
                            it.current_chunk_z * it.chunk_length >>
             chunk_max == << chunk_min[1] + it.chunk_width - 1,
                            chunk_min[2] + it.chunk_height - 1,
                            chunk_min[3] + it.chunk_length - 1 >>
         IN  IF \E a \in 1 .. 3 : chunk_min[a] > it.bbox.max[a] \/ chunk_max[a] < it.bbox.min[a]
             THEN NextChunkRestarting(AdvancePosition(it))
             ELSE LET min == [a \in 1 .. 3 |-> MaxOf(chunk_min[a], it.bbox.min[a])]
                      max == [a \in 1 .. 3 |-> MinOf(chunk_max[a], it.bbox.max[a])]
                      blocks == CollectBlocks(it.schematic, min, max)
                      current_pos == << it.current_chunk_x, it.current_chunk_y,
                                        it.current_chunk_z >>
                      advanced == AdvancePosition(it)
                  IN  IF blocks # << >>
                      THEN [iter |-> advanced,
                            result |-> Some([chunk |-> current_pos, blocks |-> blocks])]
                      ELSE NextChunkRestarting(advanced)

RECURSIVE NextChunk(_)
\* next_chunk: the iterator after the call and what it returned.
NextChunk(it) ==
    IF it.chunks_processed THEN [iter |-> it, result |-> None]
    ELSE LET chunk_min == << it.current_chunk_x * it.chunk_width,
                            it.current_chunk_y * it.chunk_height,
                            it.current_chunk_z * it.chunk_length >>
             chunk_max == << chunk_min[1] + it.chunk_width - 1,
                            chunk_min[2] + it.chunk_height - 1,
                            chunk_min[3] + it.chunk_length - 1 >>
         IN  IF \E a \in 1 .. 3 : chunk_min[a] > it.bbox.max[a] \/ chunk_max[a] < it.bbox.min[a]
             THEN NextChunk(AdvancePosition(it))
             ELSE LET min == [a \in 1 .. 3 |-> MaxOf(chunk_min[a], it.bbox.min[a])]
                      max == [a \in 1 .. 3 |-> MinOf(chunk_max[a], it.bbox.max[a])]
                      blocks == CollectBlocks(it.schematic, min, max)
                      current_pos == << it.current_chunk_x, it.current_chunk_y,
                                        it.current_chunk_z >>
                      advanced == AdvancePosition(it)
                  IN  IF blocks # << >>
                      THEN [iter |-> advanced,
                            result |-> Some([chunk |-> current_pos, blocks |-> blocks])]
                      ELSE NextChunk(advanced)

---------------------------------------------------------------------------
(* The chunk-iterator state machine: set_block calls on a new schematic, then  *)
(* an iterator over it is created and next_chunk is called until it returns    *)
(* None.                                                                       *)

IterCoordsIn == { <<0, 0, 0>>, <<1, 2, 0>>, <<-1, -1, -1>>, <<3, 0, 2>>, <<-1, 0, 2>> }

\* (chunk_width, chunk_height, chunk_length)
ChunkDims == { <<1, 1, 1>>, <<2, 2, 2>>, <<2, 3, 5>>, <<16, 16, 16>> }

\* ChunksIterator::new(schem, chunk_width, chunk_height, chunk_length)
StartIter(dims) ==
    /\ iter = Idle
    /\ Len(schem.regions) > 0
    /\ iter' = ChunksIteratorNew(schem, dims[1], dims[2], dims[3])
    /\ yielded' = << >>
    /\ UNCHANGED <<regions, written, last, ops, calc, schem, file>>

\* iter.next_chunk()
DoNextChunk ==
    /\ iter # Idle
    /\ last = Idle
    /\ LET r == NextChunk(iter)
       IN  /\ iter' = r.iter
           /\ IF IsSome(r.result)
              THEN yielded' = Append(yielded, Unwrap(r.result)) /\ last' = last
              ELSE yielded' = yielded /\ last' = [op |-> "next_chunk", result |-> None]
    /\ UNCHANGED <<regions, written, ops, calc, schem, file>>

NextIter ==
    \/ \E c \in IterCoordsIn : \E block \in SchemBlocks :
          SchemSetBlock(c, block)
    \/ \E dims \in ChunkDims : StartIter(dims)
    \/ DoNextChunk

SpecIter == InitSchem /\ [][NextIter]_vars

\* How many times position c was emitted, over all yielded chunks.
EmittedCount(c) ==
    Cardinality({ kj \in { << k, j >> : k \in 1 .. Len(yielded), j \in 1 .. 64 } :
                     /\ kj[2] <= Len(yielded[kj[1]].blocks)
                     /\ yielded[kj[1]].blocks[kj[2]].position = c })

\* C9: over one full iteration, the positions emitted across all yielded chunks are
\* exactly the positions of the schematic's bounding box whose block is not
\* minecraft:air, each emitted exactly once.
C9_ChunksCoverNonAirOnce ==
    (iter # Idle /\ last.op = "next_chunk") =>
        /\ \A c \in CoordsOfBox(SchematicGetBoundingBox(schem)) :
              EmittedCount(c) =
                 IF SchematicGetBlock(schem, c[1], c[2], c[3]) \notin {None, Some(Air)}
                 THEN 1 ELSE 0
        /\ \A k \in 1 .. Len(yielded) : \A j \in 1 .. Len(yielded[k].blocks) :
              Contains(SchematicGetBoundingBox(schem), yielded[k].blocks[j].position)

---------------------------------------------------------------------------
(* The bounding-box iterator state machine: iter_coords on a box, then next is *)
(* called, size_hint being read before each call, until None has been         *)
(* returned twice.                                                             *)

InitBoxIter ==
    /\ \E bb \in BoxInputs :
          calc = [op |-> "iter_coords", bb |-> bb, it |-> IterCoords(bb),
                  items |-> << >>, hints |-> << >>, ended |-> 0]
    /\ regions = Idle
    /\ written = EmptyMap
    /\ last = Idle
    /\ ops = 0
    /\ schem = Idle
    /\ iter = Idle
    /\ yielded = << >>
    /\ file = Idle

\* it.size_hint() and then it.next()
BoxIterNext ==
    /\ calc.ended < 2
    /\ LET step == IterNext(calc.it)
       IN  calc' = [calc EXCEPT
                      !.it = step.it,
                      !.hints = Append(@, SizeHint(calc.it)),
                      !.items = IF IsSome(step.item) THEN Append(@, Unwrap(step.item)) ELSE @,
                      !.ended = IF IsSome(step.item) THEN @ ELSE @ + 1]
    /\ UNCHANGED <<regions, written, last, ops, schem, iter, yielded, file>>

SpecBoxIter == InitBoxIter /\ [][BoxIterNext]_vars

\* C11: iter_coords yields exactly volume triples, all inside the box, the i-th
\* being index_to_coords(i), and then None; before each call of next, size_hint
\* is the number of triples still to be yielded.
C11_IterCoordsOrderAndHint ==
    LET volume == BoxVolume(calc.bb)
    IN  /\ Len(calc.items) <= volume
        /\ calc.ended > 0 => Len(calc.items) = volume
        /\ Len(calc.items) = volume => Len(calc.hints) = volume + calc.ended
        /\ \A i \in 1 .. Len(calc.items) :
              /\ calc.items[i] = IndexToCoords(calc.bb, i - 1)
              /\ Contains(calc.bb, calc.items[i])
        /\ \A i \in 1 .. Len(calc.hints) :
              calc.hints[i] = IF i - 1 < volume THEN volume - (i - 1) ELSE 0

\* A box whose three dimensions differ was iterated to the end and next returned
\* None twice.
C11_Witness ==
    /\ calc.ended = 2
    /\ Cardinality({ GetDimensions(calc.bb)[i] : i \in 1 .. 3 }) = 3
    /\ Len(calc.items) = 6
    /\ calc.items[6] = calc.bb.max

---------------------------------------------------------------------------
(* Claims about merge. *)

\* C12: after a.merge(b), a's bounding box is the union of the two previous
\* boxes; where b holds a non-air block a reads that block; elsewhere in a's
\* previous box a reads what it read before; the rest of the union reads air.
C12_MergePostcondition ==
    last.op = "merge" =>
        LET a == regions.a
            b == regions.b
            before == last.before
            union == Union(GetBoundingBox(before), GetBoundingBox(b))
        IN  /\ GetBoundingBox(a) = union
            /\ \A c \in CoordsOfBox(union) :
                  LET from_b == GetBlock(b, c[1], c[2], c[3])
                      got == GetBlock(a, c[1], c[2], c[3])
                  IN  IF IsSome(from_b) /\ Unwrap(from_b) # Air THEN got = from_b
                      ELSE IF InsideBox(before, c)
                           THEN got = GetBlock(before, c[1], c[2], c[3])
                           ELSE got = Some(Air)

---------------------------------------------------------------------------
(* Claims about from_position_and_size and Region::new. *)

\* C13: from_position_and_size(p, s) spans [p, p + s - 1] on an axis with s > 0
\* and [p + s + 1, p] on an axis with s < 0, so min <= max and the dimension is
\* |s|; Region::new stores the box minimum as position and a size with positive
\* components; for positive s, to_position_and_size gives back (p, s).
C13_FromPositionAndSizeNormalises ==
    calc.op = "box" =>
        LET p == calc.position
            s == calc.size
            bb == calc.bb
        IN  /\ \A i \in 1 .. 3 :
                  /\ s[i] > 0 => bb.min[i] = p[i] /\ bb.max[i] = p[i] + s[i] - 1
                  /\ s[i] < 0 => bb.min[i] = p[i] + s[i] + 1 /\ bb.max[i] = p[i]
                  /\ bb.min[i] <= bb.max[i]
                  /\ s[i] > 0 => GetDimensions(bb)[i] = s[i]
                  /\ s[i] < 0 => GetDimensions(bb)[i] = -s[i]
                  /\ calc.region.position[i] = bb.min[i]
                  /\ calc.region.size[i] > 0
            /\ (\A i \in 1 .. 3 : s[i] > 0) => calc.back = << p, s >>

\* A size with two negative components was normalised at (-2,-5,3).
C13_Witness ==
    /\ calc.op = "box"
    /\ calc.position = << -2, -5, 3 >>
    /\ calc.size = << -3, 2, -1 >>
    /\ calc.bb = BoundingBoxNew(<< -4, -5, 3 >>, << -2, -4, 3 >>)
    /\ calc.region.size = << 3, 2, 1 >>

---------------------------------------------------------------------------
(* The reader state machine on files that to_schematic did not write: a root   *)
(* compound with the palette air = 0, stone = 1 and PaletteMax = 2, and a      *)
(* BlockData byte array chosen freely.                                         *)

MaxDataLen == 2

\* Bytes of the BlockData arrays: small palette indices, an index no palette
\* entry answers to, final bytes with and without bits above bit 31 when they
\* are the fifth byte (0x0F, 0x1F, 0x7F), continuation bytes (0x80, 0xFF).
DataBytes == { 0, 1, 2, 5, 15, 31, 127, 128, 255 }

RECURSIVE ByteSeqs(_)
ByteSeqs(n) ==
    IF n = 0 THEN { << >> }
    ELSE LET shorter == ByteSeqs(n - 1)
         IN  shorter \cup { Append(d, b) : d \in { e \in shorter : Len(e) = n - 1 },
                                          b \in DataBytes }

\* n times the byte b.
Repeat(b, n) == [i \in 1 .. n |-> b]

\* Varints of five and six bytes.
LongVarints ==
    { << 255, 255, 255, 255, 15 >>, << 255, 255, 255, 255, 31 >>,
      << 255, 255, 255, 255, 127 >>, << 128, 128, 128, 128, 16 >>,
      << 128, 128, 128, 128, 128, 0 >>, << 255, 255, 255, 255, 255, 1 >> }

\* Width, Height, Length of the files with a short BlockData array.
SmallDims == { << 1, 1, 1 >>, << 2, 1, 1 >> }

\* The root compound of a file of the given dimensions and BlockData bytes.
CraftedFile(dims, data) ==
    [Version |-> 2,
     DataVersion |-> 1343,
     Width |-> dims[1],
     Height |-> dims[2],
     Length |-> dims[3],
     Size |-> dims,
     Offset |-> << 0, 0, 0 >>,
     Palette |-> ("minecraft:air" :> 0) @@ ("minecraft:stone" :> 1),
     PaletteMax |-> 2,
     BlockData |-> [i \in 1 .. Len(data) |-> AsI8(data[i])],
     BlockEntities |-> << >>,
     Entities |-> << >>,
     Metadata |-> [name |-> Some("crafted"), mc_version |-> None]]

\* Short arrays at the small dimensions, and two arrays longer than one batch
\* of parse_block_data at the dimensions 1024 x 1 x 1: BATCH_SIZE + 1 one-byte
\* varints, and BATCH_SIZE - 1 one-byte varints followed by a two-byte varint.
CraftedFiles ==
    { CraftedFile(dims, data) : dims \in SmallDims, data \in ByteSeqs(MaxDataLen) \cup LongVarints }
      \cup { CraftedFile(<< BATCH_SIZE, 1, 1 >>, Repeat(0, BATCH_SIZE + 1)),
             CraftedFile(<< BATCH_SIZE, 1, 1 >>, Repeat(0, BATCH_SIZE - 1) \o << 129, 1 >>) }

InitLoad ==
    /\ \E root \in CraftedFiles : file = [op |-> "crafted", root |-> root]
    /\ schem = Idle
    /\ last = Idle
    /\ ops = 0
    /\ regions = Idle
    /\ written = EmptyMap
    /\ calc = Idle
    /\ iter = Idle
    /\ yielded = << >>

\* The BlockData bytes of the file as u8.
FileBytes == [i \in 1 .. Len(file.root.BlockData) |-> AsU8(file.root.BlockData[i])]

\* parse_block_data(&file, width, height, length)
ParseCrafted ==
    /\ calc = Idle
    /\ calc' = [op |-> "parse_block_data", data |-> FileBytes,
                expected_length |-> file.root.Width * file.root.Height * file.root.Length,
                result |-> ParseBlockData(file.root, file.root.Width, file.root.Height,
                                          file.root.Length)]
    /\ UNCHANGED <<regions, written, last, ops, schem, iter, yielded, file>>

\* decode_varint(&mut reader) on a reader over the BlockData bytes
DecodeCrafted ==
    /\ calc = Idle
    /\ calc' = [op |-> "decode_varint", data |-> FileBytes, result |-> DecodeVarint(FileBytes)]
    /\ UNCHANGED <<regions, written, last, ops, schem, iter, yielded, file>>

NextLoad ==
    \/ Load
    \/ ParseCrafted
    \/ DecodeCrafted

SpecLoad == InitLoad /\ [][NextLoad]_vars

---------------------------------------------------------------------------
(* Claims about the reader. *)

\* The first varint of data does not fit 32 bits: five continuation bytes, or
\* four continuation bytes and a fifth byte with payload bits above bit 31.
FirstVarintOverflows(data) ==
    /\ Len(data) >= 5
    /\ \A i \in 1 .. 4 : data[i] >= 128
    /\ data[5] % 128 >= 16 \/ data[5] >= 128

\* The number of varints a byte array encodes: its bytes with the high bit clear.
VarintCount(data) == Cardinality({ i \in 1 .. Len(data) : data[i] < 128 })

\* C14: a varint that does not fit 32 bits makes decode_varint and
\* parse_block_data fail with the overflow error; no truncated value is returned.
C14_VarintOverflowIsAnError ==
    (calc.op \in {"decode_varint", "parse_block_data"} /\ FirstVarintOverflows(calc.data)) =>
        /\ ~calc.result.ok
        /\ calc.result.err = "Varint is too long"

\* C15: parse_block_data returns Ok only when the number of varints in BlockData
\* equals width * height * length.
C15_ParseBlockDataLengthChecked ==
    (calc.op = "parse_block_data" /\ calc.result.ok) =>
        VarintCount(calc.data) = calc.expected_length

\* C16: every region of a schematic from_schematic returned stores only palette
\* indices below palette.len(), and get_block is Some at every coordinate of its
\* bounding box.
C16_LoadedIndicesInPalette ==
    (last.op = "from_schematic" /\ last.result.ok) =>
        \A i \in 1 .. Len(last.result.value.regions) :
            LET r == last.result.value.regions[i]
            IN  /\ \A k \in DOMAIN r.chunks : \A l \in DOMAIN r.chunks[k] :
                      r.chunks[k][l] < Len(r.palette)
                /\ \A c \in CoordsOfBox(GetBoundingBox(r)) :
                      IsSome(GetBlock(r, c[1], c[2], c[3]))

---------------------------------------------------------------------------
(* The loaders of the C interface and of the WASM wrapper. A byte array is a   *)
(* record: nbt says whether it is a gzip stream holding one NBT compound, root *)
(* is that compound. The litematic codec is not part of the sources read: a    *)
(* litematic root carries under Regions the outcome of from_litematic.         *)

\* litematic::is_litematic(data): the root holds Regions.
IsLitematic(data) == data.nbt /\ "Regions" \in DOMAIN data.root

\* litematic::from_litematic(data)
FromLitematic(data) ==
    IF data.nbt /\ "Regions" \in DOMAIN data.root THEN data.root.Regions
    ELSE Err("not a litematic")

\* schematic::is_schematic(data), for a root without a Schematic compound.
IsSchematic(data) ==
    /\ data.nbt
    /\ IF "Version" \notin DOMAIN data.root THEN "Blocks" \in DOMAIN data.root
       ELSE IF data.root.Version = 3 THEN "Blocks" \in DOMAIN data.root
       ELSE {"DataVersion", "Width", "Height", "Length", "BlockData"} \subseteq DOMAIN data.root

\* schematic::from_schematic(data) on a byte array: the errors of read_nbt and of
\* the tags read with `?`, then the version 2 reader.
FromSchematicData(data) ==
    IF ~data.nbt THEN Err("read_nbt")
    ELSE IF ~({"Version", "Width", "Height", "Length", "Palette", "BlockData",
               "BlockEntities"} \subseteq DOMAIN data.root)
    THEN Err("missing tag")
    ELSE FromSchematic(data.root)

\* The byte arrays handed to the loaders: no NBT at all, a litematic that
\* parses and one that does not, version 2 files that parse, that hold a varint
\* with five continuation bytes, that hold too few varints, and a compound
\* that matches neither envelope.
LoadInputs ==
    { [nbt |-> FALSE],
      [nbt |-> TRUE,
       root |-> [Regions |-> Ok(SchematicSetBlock(SchematicNew("lit"), 0, 0, 0, Stone))]],
      [nbt |-> TRUE, root |-> [Regions |-> Err("bad region")]],
      [nbt |-> TRUE, root |-> CraftedFile(<< 1, 1, 1 >>, << 1 >>)],
      [nbt |-> TRUE, root |-> CraftedFile(<< 1, 1, 1 >>, << 128, 128, 128, 128, 128, 0 >>)],
      [nbt |-> TRUE, root |-> CraftedFile(<< 2, 1, 1 >>, << 1 >>)],
      [nbt |-> TRUE, root |-> [Version |-> 2, DataVersion |-> 1343, Width |-> 1,
                               Height |-> 1, Length |-> 1]] }

InitWrap ==
    /\ schem = SchematicNew("Default")
    /\ file = Idle
    /\ last = Idle
    /\ ops = 0
    /\ regions = Idle
    /\ written = EmptyMap
    /\ calc = Idle
    /\ iter = Idle
    /\ yielded = << >>

\* The end of a loader call: what the wrapper holds and what was returned.
Loaded(op, data, held, result) ==
    /\ last = Idle
    /\ schem' = held
    /\ last' = [op |-> op, data |-> data, before |-> schem, result |-> result]
    /\ file' = [op |-> "data", data |-> data]
    /\ UNCHANGED <<regions, written, ops, calc, iter, yielded>>

\* The match on a parser's result in the C interface: Ok(result) replaces the
\* schematic and returns 0, Err(_) returns -2.
MatchResult(op, data, result) ==
    IF result.ok THEN Loaded(op, data, result.value, 0)
    ELSE Loaded(op, data, schem, -2)

\* schematic_from_data(schematic, data, data_len)
SchematicFromData(data) ==
    IF IsLitematic(data) THEN MatchResult("schematic_from_data", data, FromLitematic(data))
    ELSE IF IsSchematic(data)
    THEN MatchResult("schematic_from_data", data, FromSchematicData(data))
    ELSE Loaded("schematic_from_data", data, schem, -3)

\* schematic_from_litematic(schematic, data, data_len)
SchematicFromLitematic(data) ==
    MatchResult("schematic_from_litematic", data, FromLitematic(data))

\* schematic_from_schematic(schematic, data, data_len)
SchematicFromSchematic(data) ==
    MatchResult("schematic_from_schematic", data, FromSchematicData(data))

\* self.0 = parser(data).map_err(...)? with self.0 assigned before the error
\* is looked at.
AssignFirst(op, data, result, prefix) ==
    IF result.ok THEN Loaded(op, data, result.value, Ok(<< >>))
    ELSE Loaded(op, data, SchematicNew("Default"), Err(prefix \o result.err))

\* self.0 = parser(data).map_err(|e| format!("{prefix}{e}"))?; Ok(())
AssignOrReturn(op, data, result, prefix) ==
    IF result.ok THEN Loaded(op, data, result.value, Ok(<< >>))
    ELSE Loaded(op, data, schem, Err(prefix \o result.err))

\* SchematicWrapper::from_litematic(&mut self, data)
WrapperFromLitematic(op, data) ==
    AssignOrReturn(op, data, FromLitematic(data), "Litematic parsing error: ")

\* SchematicWrapper::from_schematic(&mut self, data)
WrapperFromSchematic(op, data) ==
    AssignOrReturn(op, data, FromSchematicData(data), "Schematic parsing error: ")

\* SchematicWrapper::from_data(&mut self, data)
WrapperFromData(data) ==
    IF IsLitematic(data) THEN WrapperFromLitematic("from_data", data)
    ELSE IF IsSchematic(data) THEN WrapperFromSchematic("from_data", data)
    ELSE Loaded("from_data", data, schem, Err("Unknown or unsupported schematic format"))

\* Coordinates handed to set_block before a loader is called.
WrapCoords == { <<0, 0, 0>>, <<-1, -1, -1>> }

NextWrap ==
    \/ \E c \in WrapCoords : \E block \in SchemBlocks : SchemSetBlock(c, block)
    \/ \E data \in LoadInputs : SchematicFromData(data)
    \/ \E data \in LoadInputs : SchematicFromLitematic(data)
    \/ \E data \in LoadInputs : SchematicFromSchematic(data)
    \/ \E data \in LoadInputs : WrapperFromData(data)
    \/ \E data \in LoadInputs : WrapperFromLitematic("from_litematic", data)
    \/ \E data \in LoadInputs : WrapperFromSchematic("from_schematic", data)

SpecWrap == InitWrap /\ [][NextWrap]_vars

\* The loaders of the C interface, which return an integer.
FfiLoaders == { "schematic_from_data", "schematic_from_litematic", "schematic_from_schematic" }

\* C17: a loader call that fails leaves the schematic the wrapper holds as it
\* was; the schematic is replaced only by a fully parsed one; bytes of no known
\* envelope give the unknown-format error from the dispatching loaders.
C17_FailedLoadLeavesSchematic ==
    last # Idle =>
        LET ffi == last.op \in FfiLoaders
            failed == IF ffi THEN last.result # 0 ELSE ~last.result.ok
            parsed == IF IsLitematic(last.data) \/ last.op \in {"schematic_from_litematic",
                                                               "from_litematic"}
                      THEN FromLitematic(last.data) ELSE FromSchematicData(last.data)
        IN  /\ failed => schem = last.before
            /\ ffi => last.result \in {0, -2, -3}
            /\ ~failed => parsed.ok /\ schem = parsed.value
            /\ (last.op \in {"schematic_from_data", "from_data"}
                  /\ ~IsLitematic(last.data) /\ ~IsSchematic(last.data)) =>
                  /\ failed
                  /\ ffi => last.result = -3
                  /\ ~ffi => last.result.err = "Unknown or unsupported schematic format"

\* from_data failed on a version 2 file with a varint of six bytes while the
\* wrapper held a schematic with two blocks set.
C17_Witness ==
    /\ last # Idle
    /\ last.op = "from_data"
    /\ IsSchematic(last.data)
    /\ ~last.result.ok
    /\ ops = 2
    /\ Len(schem.regions) > 0

---------------------------------------------------------------------------
(* BlockState: Hash and Display. properties is a hash map: what iterating it   *)
(* yields, (key, value) pairs in an order the map chooses, is an argument.     *)

\* The characters of names, keys and values in the order of their bytes.
ByteOrder == "0123456789:=[]_abcdefghijklmnopqrstuvwxyz"

CharRank(ch) == CHOOSE i \in 1 .. Len(ByteOrder) : SubSeq(ByteOrder, i, i) = ch

RECURSIVE StrCmpFrom(_, _, _)
\* str::cmp from byte i on: -1, 0 or 1.
StrCmpFrom(a, b, i) ==
    IF i > Len(a) /\ i > Len(b) THEN 0
    ELSE IF i > Len(a) THEN -1
    ELSE IF i > Len(b) THEN 1
    ELSE LET ra == CharRank(SubSeq(a, i, i))
             rb == CharRank(SubSeq(b, i, i))
         IN  IF ra < rb THEN -1 ELSE IF ra > rb THEN 1 ELSE StrCmpFrom(a, b, i + 1)

StrCmp(a, b) == StrCmpFrom(a, b, 1)

RECURSIVE SortByKey(_)
\* sort_by on the keys: the pairs in ascending order of their first component.
SortByKey(pairs) ==
    IF pairs = << >> THEN << >>
    ELSE LET sorted == SortByKey(Tail(pairs))
             first == Head(pairs)
             before == SelectSeq(sorted, LAMBDA q : StrCmp(q[1], first[1]) < 0)
             after == SelectSeq(sorted, LAMBDA q : StrCmp(q[1], first[1]) >= 0)
         IN  before \o << first >> \o after

\* What iterating block.properties yields when the map visits its keys in the
\* order keys.
IterProps(block, keys) == [i \in 1 .. Len(keys) |-> << keys[i], block.properties[keys[i]] >>]

RECURSIVE WriteProps(_, _)
WriteProps(props, first) ==
    IF props = << >> THEN ""
    ELSE (IF first THEN "" ELSE ",") \o Head(props)[1] \o "=" \o Head(props)[2]
            \o WriteProps(Tail(props), FALSE)

\* Display without the sort of the properties.
DisplayUnsorted(block, keys) ==
    IF DOMAIN block.properties = {} THEN block.name
    ELSE block.name \o "[" \o WriteProps(IterProps(block, keys), TRUE) \o "]"

\* impl fmt::Display for BlockState
Display(block, keys) ==
    IF DOMAIN block.properties = {} THEN block.name
    ELSE block.name \o "[" \o WriteProps(SortByKey(IterProps(block, keys)), TRUE) \o "]"

RECURSIVE HashProps(_)
HashProps(props) ==
    IF props = << >> THEN << >>
    ELSE << Head(props)[1], Head(props)[2] >> \o HashProps(Tail(props))

\* impl Hash for BlockState: the strings written to the hasher, in order.
Hash(block, keys) == << block.name >> \o HashProps(SortByKey(IterProps(block, keys)))

\* The orders in which a map may visit the key set S.
KeyOrders(S) ==
    { f \in [1 .. Cardinality(S) -> S] : \A i, j \in 1 .. Cardinality(S) : f[i] = f[j] => i = j }

\* Property keys and the values each may take.
PropValues ==
    ("facing" :> {"north", "south"}) @@ ("half" :> {"top"}) @@ ("axis" :> {"x"})

InitBlock ==
    /\ calc = [op |-> "block_state",
               a |-> BlockStateNew("minecraft:oak_stairs"),
               b |-> BlockStateNew("minecraft:oak_stairs"),
               shown |-> None]
    /\ regions = Idle
    /\ written = EmptyMap
    /\ last = Idle
    /\ ops = 0
    /\ schem = Idle
    /\ iter = Idle
    /\ yielded = << >>
    /\ file = Idle

\* calc.a = calc.a.with_prop(key, value), for a key calc.a does not hold yet
WithPropA(key, value) ==
    /\ calc.shown = None
    /\ key \notin DOMAIN calc.a.properties
    /\ calc' = [calc EXCEPT !.a = WithProp(calc.a, key, value)]
    /\ UNCHANGED <<regions, written, last, ops, schem, iter, yielded, file>>

\* calc.b.set_property(key, value), for a key calc.b does not hold yet
WithPropB(key, value) ==
    /\ calc.shown = None
    /\ key \notin DOMAIN calc.b.properties
    /\ calc' = [calc EXCEPT !.b = WithProp(calc.b, key, value)]
    /\ UNCHANGED <<regions, written, last, ops, schem, iter, yielded, file>>

\* a == b, a.to_string(), b.to_string() and the hashes of both, the two maps
\* visiting their keys in the orders ka and kb
Show(ka, kb) ==
    /\ calc.shown = None
    /\ calc' = [calc EXCEPT !.shown =
                  Some([eq |-> calc.a = calc.b,
                        ka |-> ka, kb |-> kb,
                        a_string |-> Display(calc.a, ka), b_string |-> Display(calc.b, kb),
                        a_hash |-> Hash(calc.a, ka), b_hash |-> Hash(calc.b, kb)])]
    /\ UNCHANGED <<regions, written, last, ops, schem, iter, yielded, file>>

NextBlock ==
    \/ \E key \in DOMAIN PropValues : \E value \in PropValues[key] : WithPropA(key, value)
    \/ \E key \in DOMAIN PropValues : \E value \in PropValues[key] : WithPropB(key, value)
    \/ \E ka \in KeyOrders(DOMAIN calc.a.properties) :
         \E kb \in KeyOrders(DOMAIN calc.b.properties) : Show(ka, kb)

SpecBlock == InitBlock /\ [][NextBlock]_vars

\* name, or name[k1=v1,...] with the keys in lexicographic order.
CanonicalString(block) ==
    IF DOMAIN block.properties = {} THEN block.name
    ELSE LET keys == CHOOSE f \in KeyOrders(DOMAIN block.properties) :
                        \A i \in 1 .. Len(f) - 1 : StrCmp(f[i], f[i + 1]) < 0
         IN  block.name \o "["
               \o WriteProps([i \in 1 .. Len(keys) |-> << keys[i], block.properties[keys[i]] >>],
                             TRUE)
               \o "]"

\* C18: two BlockStates with the same name and the same properties, inserted in
\* any order, are equal, hash identically and print the same canonical string.
C18_BlockStateOrderIndependent ==
    (calc.op = "block_state" /\ calc.shown # None) =>
        LET shown == Unwrap(calc.shown)
            same == /\ calc.a.name = calc.b.name
                    /\ DOMAIN calc.a.properties = DOMAIN calc.b.properties
                    /\ \A k \in DOMAIN calc.a.properties :
                          calc.a.properties[k] = calc.b.properties[k]
        IN  /\ shown.a_string = CanonicalString(calc.a)
            /\ shown.b_string = CanonicalString(calc.b)
            /\ same => /\ shown.eq
                       /\ shown.a_hash = shown.b_hash
                       /\ shown.a_string = shown.b_string

\* Two block states holding the same three properties were compared, their
\* maps visiting the keys in different orders, neither of them sorted.
C18_Witness ==
    /\ calc.op = "block_state"
    /\ calc.shown # None
    /\ calc.a = calc.b
    /\ Unwrap(calc.shown).ka = << "half", "facing", "axis" >>
    /\ Unwrap(calc.shown).kb = << "facing", "axis", "half" >>
    /\ Unwrap(calc.shown).a_string = "minecraft:oak_stairs[axis=x,facing=south,half=top]"

---------------------------------------------------------------------------
(* Claims about the chunk addressing and the packed array. *)

\* C20: get_chunk_coords_and_index gives on each axis chunk = floor(coord / 16)
\* and local = coord - 16 * chunk in [0, 16), the index is
\* local_y * 256 + local_z * 16 + local_x in [0, 4096), and two different
\* coordinates never give the same (chunk, index).
C20_ChunkAddressing ==
    calc.op = "chunk" =>
        LET c == calc.coords
            chunk == << calc.result[1], calc.result[2], calc.result[3] >>
            idx == calc.result[4]
            local == [i \in 1 .. 3 |-> c[i] - 16 * chunk[i]]
        IN  /\ \A i \in 1 .. 3 :
                  /\ 16 * chunk[i] <= c[i] /\ c[i] < 16 * (chunk[i] + 1)
                  /\ local[i] \in 0 .. 15
            /\ idx = local[2] * 256 + local[3] * 16 + local[1]
            /\ idx \in 0 .. 4095
            /\ \A d \in ChunkInputs :
                  d # c => GetChunkCoordsAndIndex(d[1], d[2], d[3]) # calc.result

\* The coordinate (-17, -1, 16) was addressed: chunk (-2, -1, 1), cell (15, 15, 0).
C20_Witness ==
    /\ calc.op = "chunk"
    /\ calc.coords = << -17, -1, 16 >>
    /\ calc.result = << -2, -1, 1, 15 * 256 + 15 >>

\* C19: create_packed_block_states returns ceil(volume * bits / 64) entries with
\* bits = max(2, ceil(log2(palette.len()))), and every palette index fits in
\* bits.
C19_PackedLength ==
    calc.op = "pack" =>
        LET r == regions.a
            volume == RegionVolume(r)
            Pow2(k) == BitsValue([i \in 1 .. k + 1 |-> IF i = k + 1 THEN 1 ELSE 0])
            bits == CHOOSE k \in 2 .. 17 :
                        /\ Pow2(k) >= Len(r.palette)
                        /\ k > 2 => Pow2(k - 1) < Len(r.palette)
            entries == Len(calc.packed_states)
        IN  /\ CalculateBitsPerBlock(r) = bits
            /\ 64 * entries >= volume * bits
            /\ 64 * (entries - 1) < volume * bits
            /\ \A i \in 1 .. entries : Len(calc.packed_states[i]) = 64
            /\ \A index \in 0 .. Len(r.palette) - 1 : index < Pow2(bits)

\* Packed: 16 positions with a palette of 17 entries, 5 bits each in 2 entries.
C19_Witness ==
    /\ calc.op = "pack"
    /\ RegionVolume(regions.a) = 16
    /\ Len(regions.a.palette) = 17
    /\ CountBlocks(regions.a) = 16
    /\ Len(calc.packed_states) = 2

---------------------------------------------------------------------------
(* Claims about the batches of parse_block_data. *)

\* The positions of data at which a varint ends.
VarintEnds(data) == { i \in 1 .. Len(data) : data[i] < 128 }

\* The first byte of the varint that ends at position e, in data without a run
\* of five continuation bytes.
VarintStart(data, e) ==
    CHOOSE s \in MaxOf(1, e - 4) .. e :
        /\ \A i \in s .. e - 1 : data[i] >= 128
        /\ s = 1 \/ data[s - 1] < 128

\* The u32 value encoded by the varint that ends at position e.
VarintAt(data, e) == DecodeVarint(SubSeq(data, VarintStart(data, e), e)).value

\* data is the concatenation of encode_varint of some u32 values.
IsVarintStream(data) ==
    /\ data # << >> => data[Len(data)] < 128
    /\ \A i \in 1 .. Len(data) - 4 : \E j \in i .. i + 4 : data[j] < 128
    /\ \A e \in VarintEnds(data) :
          EncodeVarint(VarintAt(data, e)) = SubSeq(data, VarintStart(data, e), e)

\* C21: parse_block_data on the concatenation of the varint encodings of n
\* values, with width * height * length = n, returns exactly those values,
\* wherever the varints fall relative to the batches of 1024 bytes.
C21_ParseBlockDataAcrossBatches ==
    (calc.op = "parse_block_data" /\ IsVarintStream(calc.data)
        /\ Cardinality(VarintEnds(calc.data)) = calc.expected_length) =>
        /\ calc.result.ok
        /\ Len(calc.result.value) = calc.expected_length
        /\ \A e \in VarintEnds(calc.data) :
              calc.result.value[Cardinality({ i \in VarintEnds(calc.data) : i <= e })]
                  = VarintAt(calc.data, e)

---------------------------------------------------------------------------
(* Claims about the palettes read and written by the schem codec. *)

\* C22: every region of a schematic from_schematic returned has palette[0] = air,
\* no block state twice in its palette and palette_lookup[palette[i]] = i, so
\* that set_block of air on it writes index 0.
C22_LoadedPaletteInvariants ==
    (last.op = "from_schematic" /\ last.result.ok) =>
        \A n \in 1 .. Len(last.result.value.regions) :
            LET r == last.result.value.regions[n]
            IN  /\ r.palette[1] = Air
                /\ \A i, j \in 1 .. Len(r.palette) : r.palette[i] = r.palette[j] => i = j
                /\ \A i \in 1 .. Len(r.palette) :
                      /\ r.palette[i] \in DOMAIN r.palette_lookup
                      /\ r.palette_lookup[r.palette[i]] = i - 1
                /\ GetOrInsertInPalette(r, Air).index = 0

\* A block state named minecraft:air that carries a property:
\* BlockState::new("minecraft:air").with_prop("waterlogged", "true").
AirWithProp == WithProp(Air, "waterlogged", "true")

PaletteBlocks == SchemBlocks \cup { AirWithProp }

NextPalette ==
    \/ \E c \in SchemCoords : \E block \in PaletteBlocks : SchemSetBlock(c, block)
    \/ Save

SpecPalette == InitSchem /\ [][NextPalette]_vars

\* The block get_block reports at c, None read as air.
StoredBlock(s, c) ==
    LET b == SchematicGetBlock(s, c[1], c[2], c[3])
    IN  IF IsSome(b) THEN Unwrap(b) ELSE Air

\* C23: in the output of to_schematic, for every position of the bounding box
\* the Palette entry whose id equals the BlockData value at that position is
\* the block state stored there.
C23_PaletteIdsMatchBlockData ==
    file.op = "to_schematic" =>
        LET coords == IterCoordsSeq(SchematicGetBoundingBox(schem))
            parsed == ParseBlockData(file.root, file.root.Width, file.root.Height,
                                     file.root.Length)
        IN  /\ parsed.ok
            /\ \A k \in 1 .. Len(coords) :
                  \E key \in DOMAIN file.root.Palette :
                      /\ file.root.Palette[key] = BitsValue(parsed.value[k])
                      /\ ParseBlockState(key) = StoredBlock(schem, coords[k])

---------------------------------------------------------------------------
(* region.rs: a region that only receives set_block calls. regions.created is *)
(* the box Region::new was given; DOMAIN written is every coordinate passed.  *)

InitGrow ==
    /\ \E box \in InitBoxes :
          regions = [a |-> InitSelf(box), b |-> InitOther,
                     created |-> FromPositionAndSize(box[1], box[2])]
    /\ written = EmptyMap
    /\ last = Idle
    /\ ops = 0
    /\ OtherIdle

NextGrow == \E c \in InputCoords : \E block \in InputBlocks(regions.a) : SetBlock(c, block)

SpecGrow == InitGrow /\ [][NextGrow]_vars

\* The least and the greatest element of a non-empty finite set of integers.
Least(S) == CHOOSE m \in S : \A n \in S : m <= n
Greatest(S) == CHOOSE m \in S : \A n \in S : m >= n

\* C24: after any sequence of set_block calls the bounding box is the smallest
\* box containing the box the region was created with and every coordinate
\* passed to set_block, writes of air included; a call never shrinks the box,
\* and position is the minimum corner of the box.
C24_BoxIsSmallestCover ==
    LET bb == GetBoundingBox(regions.a)
    IN  /\ \A k \in 1 .. 3 :
              /\ bb.min[k] = Least({ regions.created.min[k] }
                                      \cup { c[k] : c \in DOMAIN written })
              /\ bb.max[k] = Greatest({ regions.created.max[k] }
                                         \cup { c[k] : c \in DOMAIN written })
        /\ regions.a.position = bb.min
        /\ regions.a.size = GetDimensions(bb)
        /\ last.op = "set_block" =>
              \A k \in 1 .. 3 :
                  /\ bb.min[k] <= GetBoundingBox(last.before).min[k]
                  /\ bb.max[k] >= GetBoundingBox(last.before).max[k]

\* An air write below the creation box, after a write above it, has grown the box.
C24_Witness ==
    /\ last.op = "set_block"
    /\ last.block = Air
    /\ last.coord = <<-1, -1, -1>>
    /\ <<2, 0, 16>> \in DOMAIN written
    /\ regions.created.min = <<0, 0, 0>>
    /\ GetBoundingBox(regions.a) = BoundingBoxNew(<<-1, -1, -1>>, <<2, 1, 16>>)

---------------------------------------------------------------------------
(* region.rs: a region that receives set_block and expand_to_fit calls. *)

NextExpand ==
    \/ \E c \in InputCoords : \E block \in InputBlocks(regions.a) : SetBlock(c, block)
    \/ \E c \in ExpandCoords : DoExpandToFit(c)

SpecExpand == Init /\ [][NextExpand]_vars

\* C25: expand_to_fit(x, y, z) changes only position and size: the chunk map,
\* the palette, the palette lookup, the entities and the block entities are as
\* before, every coordinate readable before reads the same block, every newly
\* covered coordinate reads air, and a coordinate already inside the box
\* changes nothing.
C25_ExpandToFitFrame ==
    last.op = "expand_to_fit" =>
        LET before == last.before
            after == regions.a
        IN  /\ after.chunks = before.chunks
            /\ after.palette = before.palette
            /\ after.palette_lookup = before.palette_lookup
            /\ after.entities = before.entities
            /\ after.block_entities = before.block_entities
            /\ after.name = before.name
            /\ \A c \in BoxCoords(after) \cup ProbeCoords :
                  LET was == GetBlock(before, c[1], c[2], c[3])
                      is == GetBlock(after, c[1], c[2], c[3])
                  IN  /\ IsSome(was) => is = was
                      /\ (~IsSome(was) /\ InsideBox(after, c)) => is = Some(Air)
            /\ InsideBox(before, last.coord) => after = before

\* A region holding a block has been grown to a coordinate outside its box.
C25_Witness ==
    /\ last.op = "expand_to_fit"
    /\ ~InsideBox(last.before, last.coord)
    /\ last.before.chunks # EmptyMap
    /\ InsideBox(regions.a, last.coord)
    /\ GetBlock(regions.a, last.coord[1], last.coord[2], last.coord[3]) = Some(Air)

\* C26: set_block of air at a coordinate whose chunk is absent leaves the chunk
\* map and the palette as they were (the box may grow), and a region whose
\* writes were all air has the empty chunk map of a fresh region.
C26_AirWriteAllocatesNothing ==
    /\ (last.op = "set_block" /\ last.block = Air
            /\ ChunkKey(last.coord) \notin DOMAIN last.before.chunks) =>
           /\ regions.a.chunks = last.before.chunks
           /\ regions.a.palette = last.before.palette
           /\ regions.a.palette_lookup = last.before.palette_lookup
           /\ regions.a.entities = last.before.entities
           /\ regions.a.block_entities = last.before.block_entities
    /\ (\A c \in DOMAIN written : written[c] = Air) =>
           regions.a.chunks = RegionNew("a", <<0, 0, 0>>, <<1, 1, 1>>).chunks

\* Air has been written outside the box into a chunk the region does not hold,
\* while another chunk of the region holds a block.
C26_Witness ==
    /\ last.op = "set_block"
    /\ last.block = Air
    /\ ChunkKey(last.coord) \notin DOMAIN last.before.chunks
    /\ last.before.chunks # EmptyMap
    /\ ~InsideBox(last.before, last.coord)
    /\ InsideBox(regions.a, last.coord)

---------------------------------------------------------------------------
(* Claims about the order and the contents of the chunks next_chunk yields. *)

\* a before b in the lexicographic order of (chunk_x, chunk_y, chunk_z).
LexLess(a, b) ==
    \/ a[1] < b[1]
    \/ a[1] = b[1] /\ a[2] < b[2]
    \/ a[1] = b[1] /\ a[2] = b[2] /\ a[3] < b[3]

\* C27: the chunks successive next_chunk calls yield are in strictly increasing
\* lexicographic order of (chunk_x, chunk_y, chunk_z); no chunk coordinate is
\* yielded twice.
C27_ChunksInLexicographicOrder ==
    /\ \A k \in 1 .. Len(yielded) - 1 : LexLess(yielded[k].chunk, yielded[k + 1].chunk)
    /\ \A k, n \in 1 .. Len(yielded) : yielded[k].chunk = yielded[n].chunk => k = n

\* Two chunks have been yielded, the first at negative chunk coordinates, the
\* second further along X and back along Z.
C27_Witness ==
    /\ Len(yielded) >= 2
    /\ yielded[1].chunk[1] < 0
    /\ yielded[2].chunk[1] > yielded[1].chunk[1]
    /\ yielded[2].chunk[3] < yielded[1].chunk[3]

\* C28: every chunk next_chunk yielded has a non-empty block list, and every
\* position in it lies inside the bounding box of the schematic and inside the
\* cell of the chunk: cx * cw <= x <= cx * cw + cw - 1, likewise for y and z.
C28_YieldedBlocksInsideChunk ==
    \A k \in 1 .. Len(yielded) :
        LET cell == yielded[k].chunk
            dims == << iter.chunk_width, iter.chunk_height, iter.chunk_length >>
        IN  /\ yielded[k].blocks # << >>
            /\ \A j \in 1 .. Len(yielded[k].blocks) :
                  LET p == yielded[k].blocks[j].position
                  IN  /\ Contains(SchematicGetBoundingBox(schem), p)
                      /\ \A a \in 1 .. 3 :
                            /\ cell[a] * dims[a] <= p[a]
                            /\ p[a] <= cell[a] * dims[a] + dims[a] - 1

\* A chunk at negative chunk coordinates, wider than one block, has been
\* yielded with a block at a negative position.
C28_Witness ==
    /\ iter # Idle
    /\ iter.chunk_width > 1
    /\ \E k \in 1 .. Len(yielded) :
          /\ yielded[k].chunk = <<-1, -1, -1>>
          /\ yielded[k].blocks[1].position = <<-1, -1, -1>>

---------------------------------------------------------------------------
(* wasm.rs: JsChunksIterator::count_non_empty_chunks, called once at any point *)
(* of an iteration; calc holds what it returned.                               *)

\* The 'outer loop: some cell of min .. max holds a block whose name does not
\* contain "air".
HasBlocks(schematic, min, max) ==
    \E x \in min[1] .. max[1] : \E y \in min[2] .. max[2] : \E z \in min[3] .. max[3] :
        LET block == SchematicGetBlock(schematic, x, y, z)
        IN  IsSome(block) /\ ~StrContains(Unwrap(block).name, "air")

\* The chunk coordinates the three nested loops visit.
CandidateChunks(bbox, dims) ==
    { << chunk_x, chunk_y, chunk_z >> :
        chunk_x \in MinChunk(bbox.min[1], dims[1]) .. TruncDiv(bbox.max[1] + dims[1] - 1, dims[1]),
        chunk_y \in MinChunk(bbox.min[2], dims[2]) .. TruncDiv(bbox.max[2] + dims[2] - 1, dims[2]),
        chunk_z \in MinChunk(bbox.min[3], dims[3]) .. TruncDiv(bbox.max[3] + dims[3] - 1, dims[3]) }

\* count_non_empty_chunks that counts every chunk meeting the bounding box.
CountChunksMeetingBox(inner) ==
    LET bbox == SchematicGetBoundingBox(inner.schematic)
        dims == << inner.chunk_width, inner.chunk_height, inner.chunk_length >>
    IN  Cardinality({ c \in CandidateChunks(bbox, dims) :
            ~ \E a \in 1 .. 3 : \/ c[a] * dims[a] > bbox.max[a]
                                \/ c[a] * dims[a] + dims[a] - 1 < bbox.min[a] })

\* count_non_empty_chunks(&self): count is incremented once for every visited
\* chunk that meets the bounding box and has a block.
CountNonEmptyChunks(inner) ==
    LET schematic == inner.schematic
        bbox == SchematicGetBoundingBox(schematic)
        dims == << inner.chunk_width, inner.chunk_height, inner.chunk_length >>
    IN  Cardinality({ c \in CandidateChunks(bbox, dims) :
            LET chunk_min == [a \in 1 .. 3 |-> c[a] * dims[a]]
                chunk_max == [a \in 1 .. 3 |-> chunk_min[a] + dims[a] - 1]
            IN  /\ ~ \E a \in 1 .. 3 : chunk_min[a] > bbox.max[a] \/ chunk_max[a] < bbox.min[a]
                /\ HasBlocks(schematic,
                             [a \in 1 .. 3 |-> MaxOf(chunk_min[a], bbox.min[a])],
                             [a \in 1 .. 3 |-> MinOf(chunk_max[a], bbox.max[a])]) })

\* iter.count_non_empty_chunks()
DoCountNonEmptyChunks ==
    /\ iter # Idle
    /\ calc = Idle
    /\ calc' = [op |-> "count_non_empty_chunks", result |-> CountNonEmptyChunks(iter),
                calls |-> Len(yielded)]
    /\ UNCHANGED <<regions, written, last, ops, schem, iter, yielded, file>>

\* Coordinates of the blocks set before the count: both sides of the origin.
CountCoords == { <<0, 0, 0>>, <<-1, -1, -1>>, <<3, 0, 2>> }

NextCount ==
    \/ \E c \in CountCoords : \E block \in SchemBlocks : SchemSetBlock(c, block)
    \/ \E dims \in ChunkDims : StartIter(dims)
    \/ DoNextChunk
    \/ DoCountNonEmptyChunks

SpecCount == InitSchem /\ [][NextCount]_vars

RECURSIVE YieldCount(_)
\* The number of chunks next_chunk returns on it before it returns None.
YieldCount(it) ==
    LET r == NextChunk(it)
    IN  IF IsSome(r.result) THEN 1 + YieldCount(r.iter) ELSE 0

\* C29: count_non_empty_chunks returns the number of chunks a fresh iterator
\* over the same schematic and chunk dimensions yields before None, and the
\* iteration it was called in yields that many chunks whenever it was called.
C29_CountEqualsYieldedChunks ==
    calc.op = "count_non_empty_chunks" =>
        /\ calc.result = YieldCount(ChunksIteratorNew(iter.schematic, iter.chunk_width,
                                                      iter.chunk_height, iter.chunk_length))
        /\ last.op = "next_chunk" => calc.result = Len(yielded)

\* The count was taken after the first of two chunks had been yielded, and the
\* iteration has ended.
C29_Witness ==
    /\ calc.op = "count_non_empty_chunks"
    /\ calc.calls = 1
    /\ calc.result = 2
    /\ last.op = "next_chunk"
    /\ Len(yielded) = 2

---------------------------------------------------------------------------
(* chunk_iterator.rs: an iteration whose caller keeps calling next_chunk, also *)
(* after it has returned None. calc.seen lists the chunk coordinates the calls *)
(* have examined; last counts the None results and records a chunk returned    *)
(* after one.                                                                  *)

MaxCallsAfterNone == 2

RECURSIVE VisitedChunks(_)
\* The chunk coordinates one next_chunk call examines, in order: the current
\* position of every activation of next_chunk that passes the chunks_processed test.
VisitedChunks(it) ==
    IF it.chunks_processed THEN << >>
    ELSE LET current_pos == << it.current_chunk_x, it.current_chunk_y, it.current_chunk_z >>
             chunk_min == << it.current_chunk_x * it.chunk_width,
                            it.current_chunk_y * it.chunk_height,
                            it.current_chunk_z * it.chunk_length >>
             chunk_max == << chunk_min[1] + it.chunk_width - 1,
                            chunk_min[2] + it.chunk_height - 1,
                            chunk_min[3] + it.chunk_length - 1 >>
         IN  IF \E a \in 1 .. 3 : chunk_min[a] > it.bbox.max[a] \/ chunk_max[a] < it.bbox.min[a]
             THEN << current_pos >> \o VisitedChunks(AdvancePosition(it))
             ELSE IF HasBlocks(it.schematic,
                               [a \in 1 .. 3 |-> MaxOf(chunk_min[a], it.bbox.min[a])],
                               [a \in 1 .. 3 |-> MinOf(chunk_max[a], it.bbox.max[a])])
                  THEN << current_pos >>
                  ELSE << current_pos >> \o VisitedChunks(AdvancePosition(it))

NoCalls == [op |-> "next_chunk", seen |-> << >>]

\* What a call that returned r after examining visits leaves behind.
Called(r, visits) ==
    /\ iter' = r.iter
    /\ calc' = [op |-> "next_chunk",
                seen |-> (IF calc = Idle THEN NoCalls ELSE calc).seen \o visits]
    /\ IF IsSome(r.result)
       THEN /\ yielded' = Append(yielded, Unwrap(r.result))
            /\ last' = IF last = Idle THEN last ELSE [last EXCEPT !.chunk_after_none = TRUE]
       ELSE /\ yielded' = yielded
            /\ last' = IF last = Idle
                       THEN [op |-> "next_chunk", result |-> None, nones |-> 1,
                             chunk_after_none |-> FALSE]
                       ELSE [last EXCEPT !.nones = @ + 1]

\* iter.next_chunk(), called again after None up to MaxCallsAfterNone times;
\* ops goes on counting, one for every call.
CallNextChunk ==
    /\ iter # Idle
    /\ last # Idle => last.nones <= MaxCallsAfterNone
    /\ Called(NextChunk(iter), VisitedChunks(iter))
    /\ ops' = ops + 1
    /\ UNCHANGED <<regions, written, schem, file>>

\* A step that is a call of next_chunk: set_block steps are taken before the
\* iterator exists, and no other step counts in ops.
NextChunkCalled ==
    /\ iter # Idle
    /\ last # Idle => last.nones <= MaxCallsAfterNone
    /\ ops' = ops + 1

NextDrain ==
    \/ \E c \in CountCoords : \E block \in SchemBlocks : SchemSetBlock(c, block)
    \/ \E dims \in ChunkDims : StartIter(dims)
    \/ CallNextChunk

\* The caller repeats the call: while a call is possible, one is made.
SpecDrain == InitSchem /\ [][NextDrain]_vars /\ WF_ops(NextChunkCalled)

\* No chunk coordinate has been examined twice.
NoChunkRevisited ==
    calc # Idle => \A k, n \in 1 .. Len(calc.seen) : calc.seen[k] = calc.seen[n] => k = n

\* No call after a None has returned a chunk or examined a coordinate.
NoneIsFinal ==
    last # Idle => /\ ~last.chunk_after_none
                   /\ iter.chunks_processed

\* C30: repeated calls to next_chunk eventually return None, having examined
\* each candidate chunk coordinate at most once, and every call after the
\* first None returns None.
C30_IterationTerminates ==
    /\ [](NoChunkRevisited /\ NoneIsFinal)
    /\ (iter # Idle) ~> (last # Idle /\ last.nones > MaxCallsAfterNone)

\* An iteration over a box with candidates that were skipped has yielded a
\* chunk, returned None and been called again.
C30_Witness ==
    /\ last # Idle
    /\ last.nones > MaxCallsAfterNone
    /\ Len(yielded) >= 1
    /\ Len(calc.seen) > Len(yielded) + 1

=============================================================================
